---- MODULE Spec2Model ----
(***************************************************************************)
(* A model of the ASTERIX sniffer and decoder of good-listener             *)
(* (src/asterix.go): the Detector isAsterixMessage, the message decoder    *)
(* decodeAsterixMessage with its block loop, decodeDataBlock with its      *)
(* FSPEC walk, parseFSPEC, the per-category field decoders and the         *)
(* field-size estimator; and of the rotating logger that calls them        *)
(* (src/logger.go): encodePayload, LogData, checkRotation, rotate, Close.  *)
(*                                                                         *)
(* Bytes are integers 0..255 and a byte slice is a sequence of bytes; Go's *)
(* 0-based index i is the TLA+ index i+1.  Text is built from one-character*)
(* strings with \o, numbers are formatted digit by digit, a float64 result *)
(* is kept as the exact fraction the code computes (num / den).  A slice   *)
(* expression out of range, a run-time panic in Go, is recorded in the     *)
(* "panic" field of a decode result and ends the run in pc = "panic".      *)
(***************************************************************************)
EXTENDS Integers, Sequences, FiniteSets, TLC

VARIABLES
    payload,    \* the byte buffer handed to isAsterixMessage / decodeAsterixMessage
    pc,         \* position of the running call
    msg,        \* *AsterixMessage under construction (decodeAsterixMessage)
    offset,     \* decodeAsterixMessage: offset
    blockNum,   \* decodeAsterixMessage: blockNum
    data,       \* decodeDataBlock / parseFSPEC / field decoders: data
    boffset,    \* decodeDataBlock: offset
    fspec,      \* decodeDataBlock: fspec
    byteIdx,    \* decodeDataBlock: byteIdx
    bitIdx,     \* decodeDataBlock: bitIdx
    frn,        \* decodeDataBlock: frn
    dataItems,  \* decodeDataBlock: dataItems
    block,      \* decodeDataBlock: block
    last,       \* the last decodeDataItem call: its arguments, its result, and over
                \* the block so far the sum of the bytesConsumed values and the
                \* number of calls that consumed more than 0 bytes
    result,     \* the value returned by the call
    logLevel,       \* RotatingLogger: logLevel
    binaryEncoding, \* RotatingLogger: binaryEncoding
    currentSize,    \* RotatingLogger: currentSize
    lastRotation,   \* RotatingLogger: lastRotation
    fileOpen,       \* RotatingLogger: file is an open handle
    mu,             \* RotatingLogger: mu, "free" or the goroutine holding it
    now,            \* the wall clock, in hours
    disk,           \* the log directory: the sizes of the active file and of the rotated ones
    call,           \* the LogData call of each listener goroutine
    tpc,            \* position of the checkRotation goroutine
    calls           \* number of LogData calls made so far

loggerVars == <<logLevel, binaryEncoding, currentSize, lastRotation, fileOpen,
                mu, now, disk, call, tpc, calls>>

vars == <<payload, pc, msg, offset, blockNum, data, boffset, fspec, byteIdx,
          bitIdx, frn, dataItems, block, last, result, loggerVars>>

msgVars == <<msg, offset, blockNum>>

blockVars == <<data, boffset, fspec, byteIdx, bitIdx, frn, dataItems, block, last>>

-----------------------------------------------------------------------------
(* Bounds of the model.                                                    *)

\* longest payload body (the bytes after the 3-byte header) enumerated in full
MaxBody == 3
\* longest run of one repeated byte put in front of a body
MaxRun == 12
\* longest input of the Detector enumerated in full
MaxDetLen == 8
\* longest input of parseFSPEC
MaxFspecIn == 12

-----------------------------------------------------------------------------
(* Bytes, bits and slices.                                                 *)

Byte == 0..255

Min(a, b) == IF a < b THEN a ELSE b

\* bit k of b, as the code tests it with b&(1<<k) != 0
BitSet(b, k) == ((b \div (2 ^ k)) % 2) = 1

\* the two bytes read in the wrong order
U16_LittleEndian(b0, b1) == (b1 * 256) + b0

\* binary.BigEndian.Uint16
U16(b0, b1) == (b0 * 256) + b1

\* a & b on non-negative integers
RECURSIVE BitAnd(_, _)
BitAnd(a, b) ==
    IF a = 0 \/ b = 0 THEN 0
    ELSE (IF (a % 2) = 1 /\ (b % 2) = 1 THEN 1 ELSE 0) + (2 * BitAnd(a \div 2, b \div 2))

\* the value of a 16-bit pattern read as int16
ToInt16(x) == LET m == x % 65536 IN IF m >= 32768 THEN m - 65536 ELSE m

\* int32(binary.BigEndian.Uint32(b[0:4]))
Int32BE(b0, b1, b2, b3) ==
    ((IF b0 >= 128 THEN b0 - 256 ELSE b0) * 16777216) + (b1 * 65536) + (b2 * 256) + b3

\* data[n:], for n in range
Drop(s, n) == SubSeq(s, n + 1, Len(s))

\* data[:n], for n in range
Take(s, n) == SubSeq(s, 1, n)

\* whether the slice expressions s[:n] and s[n:] are in range (else Go panics)
InRange(s, n) == n >= 0 /\ n <= Len(s)

RECURSIVE Rep(_, _)
Rep(b, n) == IF n <= 0 THEN <<>> ELSE <<b>> \o Rep(b, n - 1)

RECURSIVE SeqsUpTo(_, _)
\* all sequences over S of length at most n
SeqsUpTo(S, n) ==
    IF n <= 0 THEN {<<>>}
    ELSE LET shorter == SeqsUpTo(S, n - 1)
         IN shorter \cup {Append(s, b) : s \in {t \in shorter : Len(t) = n - 1}, b \in S}

-----------------------------------------------------------------------------
(* Text: fmt.Sprintf verbs and base64.StdEncoding.                          *)

Digits == <<"0", "1", "2", "3", "4", "5", "6", "7", "8", "9",
            "A", "B", "C", "D", "E", "F">>

\* %03d printing the last digit only
Pad3_LastDigit(n) == "00" \o ToString(n % 10)

\* %03d of a non-negative integer
Pad3(n) ==
    IF n < 10 THEN "00" \o ToString(n)
    ELSE IF n < 100 THEN "0" \o ToString(n)
    ELSE ToString(n)

\* digit number (v / d) mod base of v
Dig(v, d, base) == Digits[((v \div d) % base) + 1]

\* %04o of a value below 8^4
Octal4(v) == Dig(v, 512, 8) \o Dig(v, 64, 8) \o Dig(v, 8, 8) \o Dig(v, 1, 8)

\* %06X of a value below 16^6
Hex6(v) ==
    Dig(v, 1048576, 16) \o Dig(v, 65536, 16) \o Dig(v, 4096, 16)
        \o Dig(v, 256, 16) \o Dig(v, 16, 16) \o Dig(v, 1, 16)

B64Alphabet ==
    <<"A", "B", "C", "D", "E", "F", "G", "H", "I", "J", "K", "L", "M",
      "N", "O", "P", "Q", "R", "S", "T", "U", "V", "W", "X", "Y", "Z",
      "a", "b", "c", "d", "e", "f", "g", "h", "i", "j", "k", "l", "m",
      "n", "o", "p", "q", "r", "s", "t", "u", "v", "w", "x", "y", "z",
      "0", "1", "2", "3", "4", "5", "6", "7", "8", "9", "+", "/">>

\* the base64 character of a 6-bit group
B64(v) == B64Alphabet[v + 1]

RECURSIVE EncodeToString(_)
\* base64.StdEncoding.EncodeToString
EncodeToString(bs) ==
    IF Len(bs) = 0 THEN ""
    ELSE IF Len(bs) = 1 THEN
        B64(bs[1] \div 4) \o B64((bs[1] % 4) * 16) \o "=="
    ELSE IF Len(bs) = 2 THEN
        B64(bs[1] \div 4) \o B64(((bs[1] % 4) * 16) + (bs[2] \div 16))
            \o B64((bs[2] % 16) * 4) \o "="
    ELSE
        B64(bs[1] \div 4) \o B64(((bs[1] % 4) * 16) + (bs[2] \div 16))
            \o B64(((bs[2] % 16) * 4) + (bs[3] \div 64)) \o B64(bs[3] % 64)
            \o EncodeToString(Drop(bs, 3))

-----------------------------------------------------------------------------
(* Program constants.                                                      *)

\* parseFSPEC returns once index i has reached this value
FspecCapIndex == 10
\* the target report descriptor loop of category 21 looks at most at this many bytes
DescriptorScanCap == 10
\* estimateFieldSize with the scan cap of the target report descriptor
EstimateScanCap_Descriptor == DescriptorScanCap
\* estimateFieldSize scans at most this many bytes
EstimateScanCap == 20
\* isAsterixMessage: a declared length may exceed the buffer by this much
LengthSlack == 100
\* isAsterixMessage: the largest category accepted
MaxCategory == 250
\* the shortest message: category byte and two length bytes
HeaderLen == 3

-----------------------------------------------------------------------------
(* isAsterixMessage.                                                       *)

\* isAsterixMessage without the upper limit on the declared length
isAsterixMessage_NoSlack(p) ==
    IF Len(p) < HeaderLen THEN FALSE
    ELSE LET category == p[1]
             length == U16(p[2], p[3])
         IN IF category = 0 \/ category > MaxCategory THEN FALSE
            ELSE IF length < HeaderLen THEN FALSE
            ELSE IF length = Len(p) \/ (Len(p) >= 3 /\ length <= Len(p) * 2) THEN TRUE
            ELSE FALSE

isAsterixMessage(p) ==
    IF Len(p) < HeaderLen THEN FALSE
    ELSE LET category == p[1]
             length == U16(p[2], p[3])
         IN IF category = 0 \/ category > MaxCategory THEN FALSE
            ELSE IF length < HeaderLen \/ length > Len(p) + LengthSlack THEN FALSE
            ELSE IF length = Len(p) \/ (Len(p) >= 3 /\ length <= Len(p) * 2) THEN TRUE
            ELSE FALSE

-----------------------------------------------------------------------------
(* parseFSPEC.                                                             *)

RECURSIVE parseFSPECLoop(_, _, _)
\* the loop of parseFSPEC from index i (0-based) with the accumulator acc
parseFSPECLoop(d, i, acc) ==
    IF i < Len(d) THEN
        LET acc2 == Append(acc, d[i + 1])
        IN IF d[i + 1] % 2 = 0 THEN [fspec |-> acc2, n |-> i + 1]
           ELSE IF i >= FspecCapIndex THEN [fspec |-> acc2, n |-> i + 1]
           ELSE parseFSPECLoop(d, i + 1, acc2)
    ELSE [fspec |-> acc, n |-> Len(acc)]

RECURSIVE parseFSPECLoop_StaleAcc(_, _, _)
\* the loop returning the accumulator as it was before the terminal byte
parseFSPECLoop_StaleAcc(d, i, acc) ==
    IF i < Len(d) THEN
        LET acc2 == Append(acc, d[i + 1])
        IN IF d[i + 1] % 2 = 0 THEN [fspec |-> acc, n |-> i + 1]
           ELSE IF i >= FspecCapIndex THEN [fspec |-> acc2, n |-> i + 1]
           ELSE parseFSPECLoop_StaleAcc(d, i + 1, acc2)
    ELSE [fspec |-> acc, n |-> Len(acc)]

\* parseFSPEC losing the terminal byte of the bitmap
parseFSPEC_StaleAcc(d) == parseFSPECLoop_StaleAcc(d, 0, <<>>)

RECURSIVE parseFSPECLoop_LateCap(_, _, _)
\* the loop with the cap tested one index too late
parseFSPECLoop_LateCap(d, i, acc) ==
    IF i < Len(d) THEN
        LET acc2 == Append(acc, d[i + 1])
        IN IF d[i + 1] % 2 = 0 THEN [fspec |-> acc2, n |-> i + 1]
           ELSE IF i > FspecCapIndex THEN [fspec |-> acc2, n |-> i + 1]
           ELSE parseFSPECLoop_LateCap(d, i + 1, acc2)
    ELSE [fspec |-> acc, n |-> Len(acc)]

\* parseFSPEC with the cap off by one
parseFSPEC_LateCap(d) == parseFSPECLoop_LateCap(d, 0, <<>>)

parseFSPEC(d) == parseFSPECLoop(d, 0, <<>>)

-----------------------------------------------------------------------------
(* estimateFieldSize.                                                      *)

RECURSIVE estimateScan(_, _)
\* the scan loop of estimateFieldSize from index i; 0 when the loop ends
\* without returning
estimateScan(d, i) ==
    IF i < Len(d) /\ i < EstimateScanCap THEN
        IF d[i + 1] % 2 = 0 THEN i + 1 ELSE estimateScan(d, i + 1)
    ELSE 0

\* estimateFieldSize giving up when fewer than 2 bytes are left
estimateFieldSize_NoSingle(d) ==
    IF Len(d) = 0 THEN 0
    ELSE LET found == IF d[1] % 2 # 0 /\ Len(d) > 1 THEN estimateScan(d, 0) ELSE 0
         IN IF found > 0 THEN found
            ELSE IF Len(d) >= 2 THEN 2
            ELSE 0

\* estimateFieldSize defaulting to 2 bytes whatever is left
estimateFieldSize_NoLengthCheck(d) ==
    IF Len(d) = 0 THEN 0
    ELSE LET found == IF d[1] % 2 # 0 /\ Len(d) > 1 THEN estimateScan(d, 0) ELSE 0
         IN IF found > 0 THEN found ELSE 2

estimateFieldSize(d) ==
    IF Len(d) = 0 THEN 0
    ELSE LET found == IF d[1] % 2 # 0 /\ Len(d) > 1 THEN estimateScan(d, 0) ELSE 0
         IN IF found > 0 THEN found
            ELSE IF Len(d) >= 2 THEN 2
            ELSE 1

-----------------------------------------------------------------------------
(* decodeAircraftID.                                                       *)

\* chars, one entry per character
AircraftChars ==
    <<"?", "A", "B", "C", "D", "E", "F", "G", "H", "I", "J", "K", "L", "M", "N", "O",
      "P", "Q", "R", "S", "T", "U", "V", "W", "X", "Y", "Z", "?", "?", "?", "?", "?",
      " ", "?", "?", "?", "?", "?", "?", "?", "?", "?", "?", "?", "?", "?", "?", "?",
      "0", "1", "2", "3", "4", "5", "6", "7", "8", "9", "?", "?", "?", "?", "?", "?">>

\* decodeAircraftID without the loop that drops the trailing spaces
TrimSpaces_None(cs) == cs

RECURSIVE TrimSpaces(_)
\* the loop that drops the trailing spaces
TrimSpaces(cs) ==
    IF Len(cs) > 0 /\ cs[Len(cs)] = " " THEN TrimSpaces(Take(cs, Len(cs) - 1)) ELSE cs

RECURSIVE Join(_)
\* string(callsign)
Join(cs) == IF Len(cs) = 0 THEN "" ELSE cs[1] \o Join(Drop(cs, 1))

\* the eight indices into chars
AircraftIndices(d) ==
    << d[1] \div 4,
       ((d[1] % 4) * 16) + (d[2] \div 16),
       ((d[2] % 16) * 4) + (d[3] \div 64),
       d[3] % 64,
       d[4] \div 4,
       ((d[4] % 4) * 16) + (d[5] \div 16),
       ((d[5] % 16) * 4) + (d[6] \div 64),
       d[6] % 64 >>

decodeAircraftID(d) ==
    IF Len(d) < 6 THEN ""
    ELSE LET idx == AircraftIndices(d)
             callsign == [k \in 1..8 |-> AircraftChars[idx[k] + 1]]
         IN Join(TrimSpaces(callsign))

-----------------------------------------------------------------------------
(* Field decoders.  A decoder returns (fieldName, fieldValue, bytesConsumed);*)
(* "panic" records that it sliced its data out of range.                   *)

\* the sizes the field table of category 48 declares (0: no fixed size)
DeclaredSize48(f) ==
    CASE f \in {1, 4, 5} -> 2
      [] f = 3 -> 4
      [] f = 8 -> 3
      [] f = 9 -> 6
      [] OTHER -> 0

\* the sizes the field table of category 21 declares (0: no fixed size)
DeclaredSize21(f) ==
    CASE f \in {1, 3, 16, 17} -> 2
      [] f \in {4, 23} -> 1
      [] f \in {5, 11} -> 3
      [] f \in {6, 7} -> 8
      [] f = 22 -> 6
      [] OTHER -> 0

\* a float64 value raw * mul / 2^shift, kept exact
Scaled(raw, mul, shift) == [raw |-> raw, mul |-> mul, shift |-> shift]

\* return name, value, n
Item(name, value, n) == [name |-> name, value |-> value, n |-> n, panic |-> FALSE]

\* return name, base64.StdEncoding.EncodeToString(data[:size]), size
OpaqueItem(name, d, size) ==
    IF InRange(d, size)
    THEN [name |-> name, value |-> EncodeToString(Take(d, size)), n |-> size,
          panic |-> FALSE]
    ELSE [name |-> name, value |-> "", n |-> size, panic |-> TRUE]

\* the two bytes of the data source taken in the opposite order
DataSourceId_Swapped(d) == [sac |-> d[2], sic |-> d[1]]

\* the value {"sac": int(data[0]), "sic": int(data[1])}
DataSourceId(d) == [sac |-> d[1], sic |-> d[2]]

\* (uint32(data[0]) << 16) | (uint32(data[1]) << 8) | uint32(data[2])
U24(d) == (d[1] * 65536) + (d[2] * 256) + d[3]

\* the flight level without the sign extension of lines 212-214
FlightLevel_Unsigned(d) ==
    LET flRaw == U16(d[1], d[2])
    IN [validated |-> BitAnd(flRaw, 32768) = 0,
        garbled |-> BitAnd(flRaw, 16384) # 0,
        fl |-> Scaled(ToInt16(BitAnd(flRaw, 16383)), 1, 2)]

\* the value of the flight level field of category 48
FlightLevel(d) ==
    LET flRaw == U16(d[1], d[2])
        low == ToInt16(BitAnd(flRaw, 16383))
        flValue == IF BitAnd(flRaw, 8192) # 0
                   THEN ToInt16(0 - BitAnd((((0 - low) - 1) + 1) % 65536, 16383))
                   ELSE low
    IN [validated |-> BitAnd(flRaw, 32768) = 0,
        garbled |-> BitAnd(flRaw, 16384) # 0,
        fl |-> Scaled(flValue, 1, 2)]

decodeCAT48Item(d, f) ==
    CASE f = 1 /\ Len(d) >= 2 -> Item("data_source_id", DataSourceId(d), 2)
      [] f = 3 /\ Len(d) >= 4 ->
            Item("measured_position_polar",
                 [rho_nm |-> Scaled(U16(d[1], d[2]), 1, 8),
                  theta_deg |-> Scaled(U16(d[3], d[4]), 360, 16)], 4)
      [] f = 4 /\ Len(d) >= 2 ->
            LET v == U16(d[1], d[2])
            IN Item("mode3a",
                    [validated |-> BitAnd(v, 32768) = 0,
                     garbled |-> BitAnd(v, 16384) # 0,
                     code |-> Octal4(BitAnd(v, 4095))], 2)
      [] f = 5 /\ Len(d) >= 2 -> Item("flight_level", FlightLevel(d), 2)
      [] f = 8 /\ Len(d) >= 3 -> Item("aircraft_address", Hex6(U24(d)), 3)
      [] f = 9 /\ Len(d) >= 6 -> Item("aircraft_id", decodeAircraftID(Take(d, 6)), 6)
      [] OTHER -> OpaqueItem("I048_" \o Pad3(f), d, estimateFieldSize(d))

\* the value {"latitude": ..., "longitude": ...} with the scale 180 / 2^shift
Position(d, shift) ==
    [latitude |-> Scaled(Int32BE(d[1], d[2], d[3], d[4]), 180, shift),
     longitude |-> Scaled(Int32BE(d[5], d[6], d[7], d[8]), 180, shift)]

decodeCAT62Item(d, f) ==
    CASE f = 1 /\ Len(d) >= 2 -> Item("data_source_id", DataSourceId(d), 2)
      [] f = 4 /\ Len(d) >= 2 -> Item("track_number", U16(d[1], d[2]), 2)
      [] f = 8 /\ Len(d) >= 8 -> Item("position_wgs84", Position(d, 31), 8)
      [] f = 10 /\ Len(d) >= 2 ->
            Item("measured_flight_level", Scaled(ToInt16(U16(d[1], d[2])), 1, 2), 2)
      [] OTHER -> OpaqueItem("I062_" \o Pad3(f), d, estimateFieldSize(d))

\* the fallback of category 34 naming the field without the zero padding
decodeCAT34Item_Unpadded(d, f) ==
    CASE f = 1 /\ Len(d) >= 2 -> Item("data_source_id", DataSourceId(d), 2)
      [] OTHER -> OpaqueItem("I34_" \o ToString(f), d, estimateFieldSize(d))

decodeCAT34Item(d, f) ==
    CASE f = 1 /\ Len(d) >= 2 -> Item("data_source_id", DataSourceId(d), 2)
      [] OTHER -> OpaqueItem("I034_" \o Pad3(f), d, estimateFieldSize(d))

RECURSIVE descriptorSize(_, _, _)
\* the size loop of the target report descriptor from index i
descriptorSize(d, i, size) ==
    IF i < Len(d) /\ i < DescriptorScanCap THEN
        IF d[i + 1] % 2 = 0 THEN size ELSE descriptorSize(d, i + 1, size + 1)
    ELSE size

\* the track number kept as all 16 bits
TrackNumber21_NoMask(d) == U16(d[1], d[2])

\* line 314: binary.BigEndian.Uint16(data[0:2]) & 0x0FFF
TrackNumber21(d) == BitAnd(U16(d[1], d[2]), 4095)

decodeCAT21Item(d, f) ==
    CASE f = 1 /\ Len(d) >= 2 -> Item("data_source_id", DataSourceId(d), 2)
      [] f = 2 /\ descriptorSize(d, 0, 1) <= Len(d) ->
            OpaqueItem("target_report_descriptor", d, descriptorSize(d, 0, 1))
      [] f = 3 /\ Len(d) >= 2 -> Item("track_number", TrackNumber21(d), 2)
      [] f = 4 /\ Len(d) >= 1 -> Item("service_id", d[1], 1)
      [] f = 5 /\ Len(d) >= 3 ->
            Item("time_of_applicability_position",
                 [raw |-> U24(d), seconds |-> Scaled(U24(d), 1, 7)], 3)
      [] f = 6 /\ Len(d) >= 8 -> Item("position_wgs84", Position(d, 23), 8)
      [] f = 7 /\ Len(d) >= 8 -> Item("position_wgs84_high_res", Position(d, 30), 8)
      [] f = 11 /\ Len(d) >= 3 -> Item("target_address", Hex6(U24(d)), 3)
      [] f = 16 /\ Len(d) >= 2 ->
            LET alt == U16(d[1], d[2])
            IN Item("selected_altitude",
                    [source |-> alt \div 32768,
                     altitude |-> Scaled(alt % 32768, 25, 0)], 2)
      [] f = 17 /\ Len(d) >= 2 ->
            LET alt == U16(d[1], d[2])
            IN Item("final_state_selected_altitude",
                    [mv |-> alt \div 32768,
                     ah |-> (alt \div 16384) % 2,
                     am |-> (alt \div 8192) % 2,
                     altitude |-> Scaled(alt % 8192, 25, 0)], 2)
      [] f = 20 /\ Len(d) >= 1 ->
            OpaqueItem("trajectory_intent", d, estimateFieldSize(d))
      [] f = 22 /\ Len(d) >= 6 ->
            Item("target_identification", decodeAircraftID(Take(d, 6)), 6)
      [] f = 23 /\ Len(d) >= 1 -> Item("emitter_category", d[1], 1)
      [] OTHER -> OpaqueItem("I021_" \o Pad3(f), d, estimateFieldSize(d))

decodeDataItem(d, category, f) ==
    LET fieldName == "I" \o Pad3(category) \o "_" \o Pad3(f)
    IN CASE category = 48 -> decodeCAT48Item(d, f)
         [] category = 62 -> decodeCAT62Item(d, f)
         [] category = 34 -> decodeCAT34Item(d, f)
         [] category = 21 -> decodeCAT21Item(d, f)
         [] OTHER ->
              LET size == estimateFieldSize(d)
              IN IF size > 0 /\ size <= Len(d)
                 THEN OpaqueItem(fieldName, d, size)
                 ELSE OpaqueItem(fieldName, d, Min(Len(d), 8))

-----------------------------------------------------------------------------
(* The inputs.                                                             *)

\* the categories tried: the four with a field table, and two without
Categories == {0, 21, 34, 48, 62, 255}

\* the bytes of the bodies enumerated in full: FSPEC bytes with and without
\* the extension bit, field bytes with and without it
BodyBytes == {0, 1, 4, 128, 192, 255}

\* the two length bytes tried in front of a body of n bytes: every declared
\* length up to one more than the buffer, and two far larger ones
LengthBytes(n) == {<<0, l>> : l \in 0..(HeaderLen + n + 1)} \cup {<<1, 0>>, <<255, 0>>}

\* buffers too short to hold a header
ShortPayloads == SeqsUpTo({0, 3, 48}, HeaderLen - 1)

\* every category, declared length and body of at most MaxBody bytes
FullPayloads ==
    {<<c>> \o lb \o body : c \in Categories, lb \in LengthBytes(MaxBody),
                           body \in SeqsUpTo(BodyBytes, MaxBody)}

\* category 48 messages of one block: an FSPEC naming two fields, a data
\* source field and four more bytes
Cat48Payloads ==
    {<<48, 0, 10, fs, 2, 1>> \o polar : fs \in {192, 160},
                                        polar \in {s \in SeqsUpTo({0, 1, 64, 255}, 4) : Len(s) = 4}}

\* a body made of a run of one byte, between a first byte and a tail, with
\* the declared length equal to, or one less than, the buffer length
RunPayloads ==
    {<<c, 0, HeaderLen + Len(first) + n + Len(tail) - short>> \o first \o Rep(b, n) \o tail :
        c \in Categories, first \in {<<>>, <<4>>, <<64>>}, b \in {1, 255}, n \in 0..MaxRun,
        tail \in {<<>>, <<0>>, <<128, 2, 1>>, <<3, 0, 7>>}, short \in {0, 1}}

\* the payloads of TestDecodeCAT048, TestDecodeCAT021Realistic and
\* TestDecodeCAT021WithPosition
DecoderTests ==
    { <<48, 0, 9, 128, 2, 1, 1, 0, 64, 0, 0>>,
      <<21, 0, 9, 224, 1, 2, 2, 18, 52>>,
      <<21, 0, 12, 4, 0, 128, 0, 0, 0, 64, 0, 0>> }

Payloads ==
    ShortPayloads \cup FullPayloads \cup Cat48Payloads \cup RunPayloads
    \cup DecoderTests

-----------------------------------------------------------------------------
(* decodeAsterixMessage, with decodeDataBlock called from its loop.        *)

\* &AsterixMessage{}: the zero value
ZeroMessage == [Category |-> 0, Length |-> 0, DataBlocks |-> <<>>, ParseError |-> ""]

\* make(map[string]interface{})
EmptyMap == [k \in {} |-> 0]

\* m[k] = v
Put(m, k, v) == [x \in DOMAIN m \cup {k} |-> IF x = k THEN v ELSE m[x]]

\* no decodeDataItem call made yet in this block
NoCall ==
    [called |-> FALSE, frn |-> 0, at |-> 0, avail |-> 0, name |-> "", n |-> 0, sum |-> 0,
     stored |-> 0]

\* the locals of decodeDataBlock outside a call
IdleBlock ==
    /\ data = <<>>
    /\ boffset = 0
    /\ fspec = <<>>
    /\ byteIdx = 0
    /\ bitIdx = 0
    /\ frn = 0
    /\ dataItems = EmptyMap
    /\ block = EmptyMap
    /\ last = NoCall

\* a log directory without the log file
NoDisk == [exists |-> FALSE, size |-> 0, rotated |-> EmptyMap]

\* the logger before NewRotatingLogger
IdleLogger ==
    /\ logLevel = "DATA"
    /\ binaryEncoding = "base64"
    /\ currentSize = 0
    /\ lastRotation = 0
    /\ fileOpen = FALSE
    /\ mu = "free"
    /\ now = 0
    /\ disk = NoDisk
    /\ call = EmptyMap
    /\ tpc = "wait"
    /\ calls = 0

\* the locals of decodeAsterixMessage before the call
IdleMessage ==
    /\ msg = ZeroMessage
    /\ offset = 0
    /\ blockNum = 0

Init ==
    /\ payload \in Payloads
    /\ pc = "start"
    /\ IdleLogger
    /\ IdleMessage
    /\ IdleBlock
    /\ result = "none"

\* fmt.Sprintf("error at block %d, offset %d: %v", blockNum, offset, err)
BlockError(k, o, err) ==
    "error at block " \o ToString(k) \o ", offset " \o ToString(o) \o ": " \o err

\* Validate filling in the category before it checks the length
Validate_CategoryFirst ==
    /\ pc = "start"
    /\ IF Len(payload) < HeaderLen
       THEN /\ msg' = [ZeroMessage EXCEPT
                          !.Category = IF Len(payload) > 0 THEN payload[1] ELSE 0,
                          !.ParseError = "payload too short for ASTERIX"]
            /\ pc' = "done"
            /\ UNCHANGED <<offset, blockNum>>
       ELSE LET m == [ZeroMessage EXCEPT !.Category = payload[1],
                                         !.Length = U16(payload[2], payload[3])]
            IN IF m.Length < HeaderLen \/ m.Length > Len(payload)
               THEN /\ msg' = [m EXCEPT !.ParseError =
                                   "invalid length field: " \o ToString(m.Length)
                                       \o " (payload size: " \o ToString(Len(payload)) \o ")"]
                    /\ pc' = "done"
                    /\ UNCHANGED <<offset, blockNum>>
               ELSE /\ msg' = m
                    /\ offset' = HeaderLen
                    /\ blockNum' = 0
                    /\ pc' = "loop"
    /\ result' = IF pc' = "done" THEN msg' ELSE result
    /\ UNCHANGED <<loggerVars, payload, blockVars>>

\* Validate without the test msg.Length > len(payload) of line 65
Validate_NoUpperBound ==
    /\ pc = "start"
    /\ IF Len(payload) < HeaderLen
       THEN /\ msg' = [ZeroMessage EXCEPT !.ParseError = "payload too short for ASTERIX"]
            /\ pc' = "done"
            /\ UNCHANGED <<offset, blockNum>>
       ELSE LET m == [ZeroMessage EXCEPT !.Category = payload[1],
                                         !.Length = U16(payload[2], payload[3])]
            IN IF m.Length < HeaderLen
               THEN /\ msg' = [m EXCEPT !.ParseError =
                                   "invalid length field: " \o ToString(m.Length)
                                       \o " (payload size: " \o ToString(Len(payload)) \o ")"]
                    /\ pc' = "done"
                    /\ UNCHANGED <<offset, blockNum>>
               ELSE /\ msg' = m
                    /\ offset' = HeaderLen
                    /\ blockNum' = 0
                    /\ pc' = "loop"
    /\ result' = IF pc' = "done" THEN msg' ELSE result
    /\ UNCHANGED <<loggerVars, payload, blockVars>>

\* lines 51-71: the length checks and the construction of msg
Validate ==
    /\ pc = "start"
    /\ IF Len(payload) < HeaderLen
       THEN /\ msg' = [ZeroMessage EXCEPT !.ParseError = "payload too short for ASTERIX"]
            /\ pc' = "done"
            /\ UNCHANGED <<offset, blockNum>>
       ELSE LET m == [ZeroMessage EXCEPT !.Category = payload[1],
                                         !.Length = U16(payload[2], payload[3])]
            IN IF m.Length < HeaderLen \/ m.Length > Len(payload)
               THEN /\ msg' = [m EXCEPT !.ParseError =
                                   "invalid length field: " \o ToString(m.Length)
                                       \o " (payload size: " \o ToString(Len(payload)) \o ")"]
                    /\ pc' = "done"
                    /\ UNCHANGED <<offset, blockNum>>
               ELSE /\ msg' = m
                    /\ offset' = HeaderLen
                    /\ blockNum' = 0
                    /\ pc' = "loop"
    /\ result' = IF pc' = "done" THEN msg' ELSE result
    /\ UNCHANGED <<loggerVars, payload, blockVars>>

\* line 117: the walk of one FSPEC byte starts at bit 7
HighestBit == 7

\* line 144: bit 0 of an FSPEC byte is the extension bit FX
ExtensionBit == 0

\* the walk stopping after the extension bit instead of before it
LowestFieldBit_Zero == ExtensionBit

\* line 117: and stops before bit 0, the extension bit
LowestFieldBit == 1

\* the loop going on for as long as the buffer has bytes, whatever the
\* declared length
LoopCondition_PayloadOnly == offset < Len(payload)

\* line 73: the loop condition
LoopCondition == offset < msg.Length /\ offset < Len(payload)

\* line 73 false, line 89: the loop ends and msg is returned
LoopExit ==
    /\ pc = "loop"
    /\ ~LoopCondition
    /\ pc' = "done"
    /\ result' = msg
    /\ UNCHANGED <<loggerVars, payload, msgVars, blockVars>>

\* line 74 and lines 93-112: decodeDataBlock is called on payload[offset:] and
\* runs up to its FSPEC walk, or returns an error (lines 75-78)
BlockStart ==
    /\ pc = "loop"
    /\ LoopCondition
    /\ LET d == Drop(payload, offset)
           parsed == parseFSPEC(d)
           err == IF Len(d) = 0 THEN "empty data block"
                  ELSE IF parsed.n = 0 THEN "failed to parse FSPEC"
                  ELSE ""
       IN IF err # ""
          THEN /\ msg' = [msg EXCEPT !.ParseError = BlockError(blockNum, offset, err)]
               /\ pc' = "done"
               /\ result' = msg'
               /\ UNCHANGED blockVars
          ELSE IF ~InRange(d, parsed.n)
          THEN /\ pc' = "panic"
               /\ UNCHANGED <<msg, result, blockVars>>
          ELSE /\ data' = d
               /\ fspec' = parsed.fspec
               /\ block' = Put(EmptyMap, "fspec", EncodeToString(Take(d, parsed.n)))
               /\ boffset' = parsed.n
               /\ dataItems' = EmptyMap
               /\ frn' = 1
               /\ byteIdx' = 0
               /\ bitIdx' = HighestBit
               /\ last' = NoCall
               /\ pc' = "walk"
               /\ UNCHANGED <<msg, result>>
    /\ UNCHANGED <<loggerVars, payload, offset, blockNum>>

\* FieldStep without the test bytesRead > 0 before the entry is stored
FieldStep_AlwaysStore ==
    /\ pc = "walk"
    /\ byteIdx < Len(fspec)
    /\ IF BitSet(fspec[byteIdx + 1], bitIdx)
       THEN IF ~InRange(data, boffset)
            THEN /\ pc' = "panic"
                 /\ UNCHANGED <<boffset, dataItems, last>>
            ELSE LET rest == Drop(data, boffset)
                     r == decodeDataItem(rest, msg.Category, frn)
                 IN /\ last' = [called |-> TRUE, frn |-> frn, at |-> boffset,
                                avail |-> Len(rest), name |-> r.name, n |-> r.n,
                                sum |-> last.sum + r.n,
                                stored |-> last.stored + (IF r.n > 0 THEN 1 ELSE 0)]
                    /\ IF r.panic
                       THEN /\ pc' = "panic"
                            /\ UNCHANGED <<boffset, dataItems>>
                       ELSE /\ pc' = "walk"
                            /\ dataItems' = Put(dataItems, r.name, r.value)
                            /\ boffset' = boffset + r.n
       ELSE /\ last' = [NoCall EXCEPT !.frn = frn, !.sum = last.sum, !.stored = last.stored]
            /\ pc' = "walk"
            /\ UNCHANGED <<boffset, dataItems>>
    /\ frn' = frn + 1
    /\ bitIdx' = IF bitIdx = LowestFieldBit THEN HighestBit ELSE bitIdx - 1
    /\ byteIdx' = IF bitIdx = LowestFieldBit THEN byteIdx + 1 ELSE byteIdx
    /\ UNCHANGED <<loggerVars, payload, msgVars, data, fspec, block, result>>

\* lines 115-128: one bit position of the FSPEC walk
FieldStep ==
    /\ pc = "walk"
    /\ byteIdx < Len(fspec)
    /\ IF BitSet(fspec[byteIdx + 1], bitIdx)
       THEN IF ~InRange(data, boffset)
            THEN /\ pc' = "panic"
                 /\ UNCHANGED <<boffset, dataItems, last>>
            ELSE LET rest == Drop(data, boffset)
                     r == decodeDataItem(rest, msg.Category, frn)
                 IN /\ last' = [called |-> TRUE, frn |-> frn, at |-> boffset,
                                avail |-> Len(rest), name |-> r.name, n |-> r.n,
                                sum |-> last.sum + r.n,
                                stored |-> last.stored + (IF r.n > 0 THEN 1 ELSE 0)]
                    /\ IF r.panic
                       THEN /\ pc' = "panic"
                            /\ UNCHANGED <<boffset, dataItems>>
                       ELSE /\ pc' = "walk"
                            /\ IF r.n > 0
                               THEN /\ dataItems' = Put(dataItems, r.name, r.value)
                                    /\ boffset' = boffset + r.n
                               ELSE UNCHANGED <<boffset, dataItems>>
       ELSE /\ last' = [NoCall EXCEPT !.frn = frn, !.sum = last.sum, !.stored = last.stored]
            /\ pc' = "walk"
            /\ UNCHANGED <<boffset, dataItems>>
    /\ frn' = frn + 1
    /\ bitIdx' = IF bitIdx = LowestFieldBit THEN HighestBit ELSE bitIdx - 1
    /\ byteIdx' = IF bitIdx = LowestFieldBit THEN byteIdx + 1 ELSE byteIdx
    /\ UNCHANGED <<loggerVars, payload, msgVars, data, fspec, block, result>>

\* BlockReturn without the line offset += bytesRead
BlockReturn_NoAdvance ==
    /\ pc = "walk"
    /\ byteIdx >= Len(fspec)
    /\ LET bytesRead == boffset
           returned == IF Cardinality(DOMAIN dataItems) > 0
                       THEN Put(block, "data_items", dataItems)
                       ELSE block
       IN /\ block' = returned
          /\ IF bytesRead = 0
             THEN /\ pc' = "done"
                  /\ result' = msg
                  /\ UNCHANGED msgVars
             ELSE /\ msg' = [msg EXCEPT !.DataBlocks = Append(@, returned)]
                  /\ offset' = offset
                  /\ blockNum' = blockNum + 1
                  /\ pc' = "loop"
                  /\ UNCHANGED result
    /\ UNCHANGED <<loggerVars, payload, data, boffset, fspec, byteIdx, bitIdx, frn, dataItems, last>>

\* lines 130-134 and 80-86: the walk is over, decodeDataBlock returns the block
\* and its offset, and decodeAsterixMessage appends the block or stops
BlockReturn ==
    /\ pc = "walk"
    /\ byteIdx >= Len(fspec)
    /\ LET bytesRead == boffset
           returned == IF Cardinality(DOMAIN dataItems) > 0
                       THEN Put(block, "data_items", dataItems)
                       ELSE block
       IN /\ block' = returned
          /\ IF bytesRead = 0
             THEN /\ pc' = "done"
                  /\ result' = msg
                  /\ UNCHANGED msgVars
             ELSE /\ msg' = [msg EXCEPT !.DataBlocks = Append(@, returned)]
                  /\ offset' = offset + bytesRead
                  /\ blockNum' = blockNum + 1
                  /\ pc' = "loop"
                  /\ UNCHANGED result
    /\ UNCHANGED <<loggerVars, payload, data, boffset, fspec, byteIdx, bitIdx, frn, dataItems, last>>

Next == Validate \/ LoopExit \/ BlockStart \/ FieldStep \/ BlockReturn

Spec == Init /\ [][Next]_vars

-----------------------------------------------------------------------------
(* isAsterixMessage on its own.                                            *)

\* the categories tried: both ends of the accepted range and their neighbours
DetectorCategories == {0, 1, 48, 250, 251, 255}

\* the buffer lengths tried: short ones, and two for which twice the length
\* is more than the length plus the slack
DetectorLengths == HeaderLen..MaxDetLen \cup {101, 150}

\* the payloads of TestIsAsterixMessage
DetectorTests ==
    { <<48, 0, 8, 192, 2, 1, 0>>, <<21, 0, 9, 224, 1, 2, 2, 18, 52>>, <<48, 0>>,
      <<0, 0, 8, 192, 2, 1, 0>>, <<255, 0, 8, 192, 2, 1, 0>>, <<48, 255, 0, 192, 2, 1, 0>> }

DetectorInputs ==
    {<<c, hi, lo>> \o Rep(0, n - HeaderLen) :
        c \in DetectorCategories, hi \in {0, 1, 255}, lo \in Byte, n \in DetectorLengths}
    \cup ShortPayloads \cup DetectorTests

InitDetector ==
    /\ payload \in DetectorInputs
    /\ pc = "call"
    /\ IdleLogger
    /\ IdleMessage
    /\ IdleBlock
    /\ result = "none"

\* one call of isAsterixMessage(payload)
Detect ==
    /\ pc = "call"
    /\ result' = isAsterixMessage(payload)
    /\ pc' = "returned"
    /\ UNCHANGED <<loggerVars, payload, msgVars, blockVars>>

NextDetector == Detect

SpecDetector == InitDetector /\ [][NextDetector]_vars

-----------------------------------------------------------------------------
(* parseFSPEC on its own.                                                  *)

\* the payloads of TestParseFSPEC
FspecTests == { <<128>>, <<129, 128>>, <<193, 193, 128>> }

\* every mix of a terminal byte and an extended byte up to MaxFspecIn bytes,
\* and the same with other presence bits after a first extended byte
FspecInputs ==
    SeqsUpTo({128, 129}, MaxFspecIn)
    \cup {<<193>> \o t : t \in SeqsUpTo({0, 128, 193, 255}, 3)}
    \cup FspecTests

InitFSPEC ==
    /\ payload = <<>>
    /\ pc = "call"
    /\ IdleLogger
    /\ IdleMessage
    /\ data \in FspecInputs
    /\ boffset = 0
    /\ fspec = <<>>
    /\ byteIdx = 0
    /\ bitIdx = 0
    /\ frn = 0
    /\ dataItems = EmptyMap
    /\ block = EmptyMap
    /\ last = NoCall
    /\ result = "none"

\* one call of parseFSPEC(data)
ParseCall ==
    /\ pc = "call"
    /\ result' = parseFSPEC(data)
    /\ pc' = "returned"
    /\ UNCHANGED <<loggerVars, payload, msgVars, blockVars>>

NextFSPEC == ParseCall

SpecFSPEC == InitFSPEC /\ [][NextFSPEC]_vars

\* the inputs of the termination check: two categories, one with a field
\* table and one without, every declared length, every body over four bytes
TerminationPayloads ==
    {<<c>> \o lb \o body : c \in {48, 255}, lb \in LengthBytes(MaxBody),
                           body \in SeqsUpTo({0, 1, 128, 255}, MaxBody)}
    \cup ShortPayloads

InitFair ==
    /\ payload \in TerminationPayloads
    /\ pc = "start"
    /\ IdleLogger
    /\ IdleMessage
    /\ IdleBlock
    /\ result = "none"

\* the scheduling of a call: a call that can take a step takes it
SpecFair == InitFair /\ [][Next]_vars /\ WF_vars(Next)

-----------------------------------------------------------------------------
(* The claims.                                                             *)

\* the declared length of a payload of at least 3 bytes, read from its bytes
DeclaredLength == (payload[2] * 256) + payload[3]

\* C1: decodeAsterixMessage never indexes or slices out of range: no run ends
\* in a panic, inside decodeDataBlock the offset stays between the FSPEC length
\* and len(data), every field decoder returns 0 <= bytesConsumed <= len(data),
\* and a finished call has returned its message.
C1_NoOutOfRange ==
    /\ pc # "panic"
    /\ pc = "walk" => (Len(fspec) <= boffset /\ boffset <= Len(data))
    /\ last.called => (0 <= last.n /\ last.n <= last.avail)
    /\ pc = "done" => result = msg

\* C1 witness: the last possible field, FRN 77, is decoded and consumes every
\* byte that was left of the block
C1_Witness ==
    /\ pc = "walk"
    /\ last.called
    /\ last.frn = 77
    /\ last.n > 0
    /\ last.n = last.avail
    /\ boffset = Len(data)

\* C2: decodeAsterixMessage terminates: a block that is appended moves the
\* message offset forward by at least its FSPEC, which is at least 1 byte, no
\* more than payloadLength - 3 blocks are decoded, and every call reaches its
\* return.
C2_Terminates ==
    /\ [][(pc = "walk" /\ pc' = "loop") =>
            (Len(fspec) >= 1 /\ offset' >= offset + Len(fspec)
                /\ Len(msg'.DataBlocks) = Len(msg.DataBlocks) + 1)]_vars
    /\ [][(pc = "walk" /\ pc' # "walk") => pc' \in {"loop", "done"}]_vars
    /\ [](Len(payload) >= HeaderLen =>
            (Len(msg.DataBlocks) <= Len(payload) - HeaderLen /\ offset <= Len(payload)))
    /\ <>(pc = "done")

\* C2 witness: a call has returned as many blocks as the payload has bytes
\* after its header
C2_Witness ==
    /\ pc = "done"
    /\ Len(payload) > HeaderLen + 1
    /\ Len(msg.DataBlocks) = Len(payload) - HeaderLen

\* C4: a payload of fewer than 3 bytes is answered with the fixed parse error,
\* no blocks, category 0 and length 0, and neither decodeDataBlock nor a field
\* decoder runs.
C4_TooShort ==
    Len(payload) < 3 =>
        /\ pc \in {"start", "done"}
        /\ IdleBlock
        /\ pc = "done" =>
              /\ result.ParseError = "payload too short for ASTERIX"
              /\ result.DataBlocks = <<>>
              /\ result.Category = 0
              /\ result.Length = 0

\* C4 witness: the call on a 2-byte payload has returned
C4_Witness == pc = "done" /\ Len(payload) = 2 /\ payload[1] # 0

\* C5: with at least 3 bytes, category and length are those of the header,
\* valid or not; a declared length below 3 or beyond the buffer gives a parse
\* error and no blocks, and no block is decoded.
C5_InvalidLength ==
    (Len(payload) >= 3 /\ pc # "start") =>
        /\ msg.Category = payload[1]
        /\ msg.Length = DeclaredLength
        /\ (DeclaredLength < 3 \/ DeclaredLength > Len(payload)) =>
              /\ pc = "done"
              /\ IdleBlock
              /\ result.ParseError # ""
              /\ result.Category = payload[1]
              /\ result.Length = DeclaredLength
              /\ result.DataBlocks = <<>>

\* C5 witness: a call has returned for a declared length one beyond the buffer
C5_Witness ==
    /\ pc = "done"
    /\ Len(payload) > 3
    /\ DeclaredLength = Len(payload) + 1

\* C3: isAsterixMessage is true exactly when the buffer has at least 3 bytes,
\* its category is in 1..250, its declared length L is in 3..len+100, and L is
\* len or at most 2*len; a first byte 0x00 or 0xFF is rejected, and so is a
\* 7-byte buffer declaring 0xFF00.
C3_DetectorRule ==
    pc = "returned" =>
        /\ result = ( /\ Len(payload) >= 3
                      /\ payload[1] >= 1
                      /\ payload[1] <= 250
                      /\ DeclaredLength >= 3
                      /\ DeclaredLength <= Len(payload) + 100
                      /\ (DeclaredLength = Len(payload)
                            \/ DeclaredLength <= 2 * Len(payload)) )
        /\ (Len(payload) >= 1 /\ payload[1] \in {0, 255}) => result = FALSE
        /\ (Len(payload) = 7 /\ DeclaredLength = 65280) => result = FALSE

\* C3 witness: a 101-byte buffer declaring 201 bytes, the most the slack
\* allows, is accepted
C3_Witness ==
    /\ pc = "returned"
    /\ Len(payload) = 101
    /\ DeclaredLength = 201
    /\ result = TRUE

\* the size the field table declares for the field of this category and FRN
DeclaredSize(category, f) ==
    CASE category = 48 -> DeclaredSize48(f)
      [] category = 21 -> DeclaredSize21(f)
      [] OTHER -> 0

\* C7: a present field whose declared size is more than the bytes left of the
\* block is skipped: it consumes nothing and leaves no entry under any name,
\* no parse error is set and the block is decoded to its end.
C7_ShortFieldSkipped ==
    (last.called /\ DeclaredSize(msg.Category, last.frn) > last.avail) =>
        /\ last.n = 0
        /\ last.name \notin DOMAIN dataItems
        /\ msg.ParseError = ""
        /\ pc # "panic"

\* C8: a category 48 block with FSPEC 0xC0, the data source field 02 01 and a
\* 4-byte polar position decodes to data_source_id {sac 2, sic 1} and
\* measured_position_polar with rho and theta scaled from the two halves of
\* the 4 bytes, without a parse error.
C8_Cat48Polar ==
    (pc = "done" /\ Len(payload) = 10 /\ Take(payload, 6) = <<48, 0, 10, 192, 2, 1>>) =>
        /\ result.ParseError = ""
        /\ Len(result.DataBlocks) >= 1
        /\ "data_items" \in DOMAIN result.DataBlocks[1]
        /\ LET items == result.DataBlocks[1]["data_items"]
           IN /\ "data_source_id" \in DOMAIN items
              /\ items["data_source_id"] = [sac |-> 2, sic |-> 1]
              /\ "measured_position_polar" \in DOMAIN items
              /\ items["measured_position_polar"] =
                    [rho_nm |-> Scaled((payload[7] * 256) + payload[8], 1, 8),
                     theta_deg |-> Scaled((payload[9] * 256) + payload[10], 360, 16)]

\* the 0-based index of the first byte of d from index i on whose bit 0 is 0,
\* Len(d) when there is none
RECURSIVE FirstTerminal(_, _)
FirstTerminal(d, i) ==
    IF i >= Len(d) THEN Len(d)
    ELSE IF d[i + 1] % 2 = 0 THEN i
    ELSE FirstTerminal(d, i + 1)

\* C9: parseFSPEC returns the prefix of data of n bytes, n = 0 for empty data
\* and else min(j+1, 11, len(data)) for j the index of the first byte with bit 0
\* clear; every byte but the last has bit 0 set; 80 gives 1, 81 80 gives 2,
\* C1 C1 80 gives 3.
C9_FspecPrefix ==
    pc = "returned" =>
        /\ result.n = IF Len(data) = 0 THEN 0
                      ELSE Min(Min(FirstTerminal(data, 0) + 1, 11), Len(data))
        /\ Len(result.fspec) = result.n
        /\ result.fspec = Take(data, result.n)
        /\ \A k \in 1..(result.n - 1) : result.fspec[k] % 2 = 1
        /\ data = <<128>> => result.n = 1
        /\ data = <<129, 128>> => result.n = 2
        /\ data = <<193, 193, 128>> => result.n = 3

\* C9 witness: the three-byte bitmap of the tests has been parsed
C9_Witness ==
    /\ pc = "returned"
    /\ data = <<193, 193, 128, 0>>
    /\ result.fspec = <<193, 193, 128>>

\* C10: parseFSPEC never returns more than 11 bytes; on more than 11 bytes
\* whose first 11 all have the extension bit set it returns exactly the first
\* 11; so a block walk never goes beyond field slot 77.
C10_FspecCap ==
    pc = "walk" =>
        /\ Len(fspec) <= 11
        /\ frn - 1 <= 77
        /\ (Len(data) > 11 /\ \A k \in 1..11 : data[k] % 2 = 1) =>
              (fspec = Take(data, 11) /\ boffset >= 11)

\* C10 witness: the walk of an 11-byte FSPEC cut from a longer run of extended
\* bytes has gone through all 77 slots
C10_Witness ==
    /\ pc = "walk"
    /\ Len(data) > 11
    /\ \A k \in 1..12 : data[k] % 2 = 1
    /\ Len(fspec) = 11
    /\ frn = 78


-----------------------------------------------------------------------------
(* decodeDataItem on its own.                                              *)

\* the longest field data enumerated in full
MaxItemLen == 3

\* longest run of extension-bit bytes handed to a field decoder
MaxOddRun == 22

\* the bytes of the field data: with and without the low bit that
\* estimateFieldSize reads as an extension, and the two of the track number
\* example
ItemBytes == {0, 1, 18, 52, 255}

\* every field-reference-number an FSPEC of at most 11 bytes can name
FRNs == 1..((FspecCapIndex + 1) * HighestBit)

\* the largest fixed size of a field table: the 8 bytes of a position
LongestFixedSize == 8

\* data long enough for every field with a fixed size
LongestFields == {Rep(b, LongestFixedSize) : b \in {0, 255}}

ItemInputs == SeqsUpTo(ItemBytes, MaxItemLen) \cup LongestFields

InitItem ==
    /\ payload = <<>>
    /\ pc = "call"
    /\ IdleLogger
    /\ \E c \in Categories : msg = [ZeroMessage EXCEPT !.Category = c]
    /\ offset = 0
    /\ blockNum = 0
    /\ data \in ItemInputs
    /\ frn \in FRNs
    /\ boffset = 0
    /\ fspec = <<>>
    /\ byteIdx = 0
    /\ bitIdx = 0
    /\ dataItems = EmptyMap
    /\ block = EmptyMap
    /\ last = NoCall
    /\ result = "none"

\* one call of decodeDataItem(data, category, frn)
ItemCall ==
    /\ pc = "call"
    /\ result' = decodeDataItem(data, msg.Category, frn)
    /\ pc' = "returned"
    /\ UNCHANGED <<loggerVars, payload, msgVars, blockVars>>

NextItem == ItemCall

SpecItem == InitItem /\ [][NextItem]_vars

\* C11: in category 21, FRN 3 with at least 2 bytes of data decodes to
\* track_number, the big-endian 16-bit value of the first two bytes AND 0x0FFF,
\* a number in 0..4095, and consumes exactly 2 bytes; the bytes 0x12 0x34
\* give 564.
C11_TrackNumber ==
    (pc = "returned" /\ msg.Category = 21 /\ frn = 3 /\ Len(data) >= 2) =>
        /\ ~result.panic
        /\ result.name = "track_number"
        /\ result.n = 2
        /\ result.value = (((data[1] * 256) + data[2]) % 4096)
        /\ result.value \in 0..4095
        /\ (data[1] = 18 /\ data[2] = 52) => result.value = 564

C11_Witness ==
    /\ pc = "returned"
    /\ msg.Category = 21
    /\ frn = 3
    /\ Len(data) >= 2
    /\ data[1] = 18
    /\ data[2] = 52
    /\ result.name = "track_number"
    /\ result.value = 564


\* the categories with a field table of their own
TableCategories == {48, 62, 34, 21}

\* the presence bit of field-reference-number g in the FSPEC of the block
FrnPresent(g) == BitSet(fspec[((g - 1) \div 7) + 1], 7 - ((g - 1) % 7))

\* C12: in categories 48, 62, 34 and 21 a present FRN 1 with at least 2 bytes
\* left decodes to data_source_id = {sac: first byte, sic: second byte} and
\* consumes exactly 2 bytes, and the next present field starts 2 bytes later.
C12_DataSource ==
    (last.called /\ msg.Category \in TableCategories) =>
        /\ (last.frn = 1 /\ last.avail >= 2) =>
              /\ pc # "panic"
              /\ last.at = Len(fspec)
              /\ last.name = "data_source_id"
              /\ last.n = 2
              /\ "data_source_id" \in DOMAIN dataItems
              /\ dataItems["data_source_id"] =
                     [sac |-> data[Len(fspec) + 1], sic |-> data[Len(fspec) + 2]]
              /\ boffset = Len(fspec) + 2
        /\ (/\ last.frn > 1
            /\ FrnPresent(1)
            /\ Len(data) - Len(fspec) >= 2
            /\ \A g \in 2..(last.frn - 1) : ~FrnPresent(g)) =>
              last.at = Len(fspec) + 2

C12_Witness ==
    /\ msg.Category = 48
    /\ last.called
    /\ last.frn = 3
    /\ FrnPresent(1)
    /\ ~FrnPresent(2)
    /\ last.at = Len(fspec) + 2
    /\ dataItems["data_source_id"] = [sac |-> 2, sic |-> 1]


\* the FRNs that have a case in the field table of category c
RuleFRNs(c) ==
    CASE c = 48 -> {1, 3, 4, 5, 8, 9}
      [] c = 62 -> {1, 4, 8, 10}
      [] c = 34 -> {1}
      [] c = 21 -> {1, 2, 3, 4, 5, 6, 7, 11, 16, 17, 20, 22, 23}
      [] OTHER -> {}

\* "I" + category in 3 digits + "_" + FRN in 3 digits
GenericName(c, f) ==
    "I" \o Dig(c, 100, 10) \o Dig(c, 10, 10) \o Dig(c, 1, 10)
        \o "_" \o Dig(f, 100, 10) \o Dig(f, 10, 10) \o Dig(f, 1, 10)

\* C13: for a category without a field table, and for an FRN without a case
\* in the table of its category, a field with non-empty data is emitted under
\* the generic name I<category, 3 digits>_<FRN, 3 digits>, its value is the
\* base64 text of exactly the first s bytes and it consumes s bytes, where
\* s = estimateFieldSize(data); every fallback path gives the same name format.
C13_GenericField ==
    (pc = "returned" /\ Len(data) > 0 /\ frn \notin RuleFRNs(msg.Category)) =>
        LET s == estimateFieldSize(data)
        IN /\ ~result.panic
           /\ s \in 1..Len(data)
           /\ result.name = GenericName(msg.Category, frn)
           /\ result.value = EncodeToString(Take(data, s))
           /\ result.n = s

C13_Witness ==
    /\ pc = "returned"
    /\ msg.Category = 34
    /\ frn = 12
    /\ data = <<255, 1, 18>>
    /\ result.name = "I034_012"
    /\ result.value = "/wES"
    /\ result.n = 3


\* C16: every message returned by decodeAsterixMessage without a parse error
\* has a category in 1..250: a payload whose category byte is 0 or above 250
\* never yields an error-free message.
C16_CategoryValidated ==
    (pc = "done" /\ result.ParseError = "") => result.Category \in 1..MaxCategory


\* C19: blocks are decoded contiguously and in order. After the length checks
\* the first block starts at offset 3; a block is started exactly while
\* offset < declaredLength and offset < len(payload), on the bytes from offset
\* on; the offset does not move during a block; block i+1 starts at the start
\* of block i plus the bytes block i consumed, and the block is appended at
\* the end of the list. A message with declaredLength = 3 has no block and no
\* parse error.
C19_Contiguous ==
    /\ [][/\ (pc = "start" /\ pc' = "loop") => (offset' = 3 /\ msg'.DataBlocks = <<>>)
          /\ (pc = "loop" /\ pc' = "walk") =>
                /\ offset < DeclaredLength
                /\ offset < Len(payload)
                /\ data' = Drop(payload, offset)
                /\ offset' = offset
          /\ (pc = "loop" /\ pc' = "done") =>
                ~(offset < DeclaredLength /\ offset < Len(payload))
          /\ (pc = "walk" /\ pc' = "walk") =>
                (offset' = offset /\ msg'.DataBlocks = msg.DataBlocks)
          /\ (pc = "walk" /\ pc' = "loop") =>
                /\ boffset >= 1
                /\ offset' = offset + boffset
                /\ msg'.DataBlocks = Append(msg.DataBlocks, block')]_vars
    /\ [](pc = "done" /\ Len(payload) >= 3 /\ DeclaredLength = 3 =>
              result.DataBlocks = <<>> /\ result.ParseError = "")

C19_Witness ==
    /\ pc = "walk"
    /\ Len(msg.DataBlocks) = 2
    /\ offset > 3 + 2
    /\ offset < DeclaredLength
    /\ data = Drop(payload, offset)


\* C20: in the FSPEC walk the presence bit at position b (7 down to 1) of
\* FSPEC byte k (from 0) is decoded with field-reference-number 7k + (8 - b);
\* the FRN starts at 1 and goes up by one per bit position, set or not; a
\* field decode is made exactly for the positions whose bit is set, and bit 0
\* is never a position of the walk.
C20_FrnNumbering ==
    /\ [](pc = "walk" =>
             /\ byteIdx < Len(fspec) =>
                   (bitIdx \in 1..7 /\ frn = (7 * byteIdx) + (8 - bitIdx))
             /\ byteIdx >= Len(fspec) => frn = (7 * Len(fspec)) + 1)
    /\ [](last.frn > 0 =>
             LET k == (last.frn - 1) \div 7
                 b == 7 - ((last.frn - 1) % 7)
             IN /\ k < Len(fspec)
                /\ last.called = ((fspec[k + 1] \div (2 ^ b)) % 2 = 1))
    /\ [][/\ (pc = "loop" /\ pc' = "walk") => frn' = 1
          /\ (pc = "walk" /\ pc' = "walk") => (frn' = frn + 1 /\ last'.frn = frn)]_vars

C20_Witness ==
    /\ pc = "walk"
    /\ fspec = <<255, 255, 0>>
    /\ last.called
    /\ last.frn = 14
    /\ byteIdx = 2
    /\ bitIdx = 7
    /\ frn = 15


-----------------------------------------------------------------------------
(* encodePayload (src/logger.go) on its own.                               *)

\* BinaryEncodingBase64 and BinaryEncodingHex
BinaryEncodings == {"base64", "hex"}

\* p has a byte at 1-based index i that lies in lo..hi
ByteIn(p, i, lo, hi) == i <= Len(p) /\ p[i] >= lo /\ p[i] <= hi

RECURSIVE ValidFrom(_, _)
\* utf8.Valid on the bytes of p from index i: well-formed sequences of 1 to 4
\* bytes, without overlong forms, surrogates or values above U+10FFFF
ValidFrom(p, i) ==
    IF i > Len(p) THEN TRUE
    ELSE LET b == p[i]
         IN CASE b < 128 -> ValidFrom(p, i + 1)
              [] b \in 194..223 ->
                    ByteIn(p, i + 1, 128, 191) /\ ValidFrom(p, i + 2)
              [] b = 224 ->
                    /\ ByteIn(p, i + 1, 160, 191)
                    /\ ByteIn(p, i + 2, 128, 191)
                    /\ ValidFrom(p, i + 3)
              [] b \in (225..236) \cup (238..239) ->
                    /\ ByteIn(p, i + 1, 128, 191)
                    /\ ByteIn(p, i + 2, 128, 191)
                    /\ ValidFrom(p, i + 3)
              [] b = 237 ->
                    /\ ByteIn(p, i + 1, 128, 159)
                    /\ ByteIn(p, i + 2, 128, 191)
                    /\ ValidFrom(p, i + 3)
              [] b = 240 ->
                    /\ ByteIn(p, i + 1, 144, 191)
                    /\ ByteIn(p, i + 2, 128, 191)
                    /\ ByteIn(p, i + 3, 128, 191)
                    /\ ValidFrom(p, i + 4)
              [] b \in 241..243 ->
                    /\ ByteIn(p, i + 1, 128, 191)
                    /\ ByteIn(p, i + 2, 128, 191)
                    /\ ByteIn(p, i + 3, 128, 191)
                    /\ ValidFrom(p, i + 4)
              [] b = 244 ->
                    /\ ByteIn(p, i + 1, 128, 143)
                    /\ ByteIn(p, i + 2, 128, 191)
                    /\ ByteIn(p, i + 3, 128, 191)
                    /\ ValidFrom(p, i + 4)
              [] OTHER -> FALSE

\* utf8.Valid(payload)
Utf8Valid(p) == ValidFrom(p, 1)

\* "0123456789abcdef"
LowerHex == <<"0", "1", "2", "3", "4", "5", "6", "7", "8", "9",
              "a", "b", "c", "d", "e", "f">>

RECURSIVE encodeHexFrom(_, _)
\* the loop of encodeHex from index i: two digits per byte, a space between
encodeHexFrom(p, i) ==
    IF i > Len(p) THEN ""
    ELSE LowerHex[(p[i] \div 16) + 1] \o LowerHex[(p[i] % 16) + 1]
             \o (IF i < Len(p) THEN " " ELSE "") \o encodeHexFrom(p, i + 1)

encodeHex(p) == IF Len(p) = 0 THEN "" ELSE encodeHexFrom(p, 1)

encodeBinary(p, enc) ==
    IF enc = "hex" THEN [text |-> encodeHex(p), encoding |-> "hex"]
    ELSE [text |-> EncodeToString(p), encoding |-> "base64"]

RECURSIVE scanText(_, _)
\* the loop of encodePayload from index i: it stops at the first byte of 128
\* or more, and at the first control byte other than tab, LF and CR
scanText(p, i) ==
    IF i > Len(p) THEN "ascii"
    ELSE IF p[i] >= 128 THEN "utf8"
    ELSE IF p[i] < 32 /\ p[i] # 9 /\ p[i] # 10 /\ p[i] # 13 THEN "binary"
    ELSE scanText(p, i + 1)

\* the text string(payload) is kept as the bytes it holds
encodePayload(p, enc) ==
    IF ~Utf8Valid(p) THEN encodeBinary(p, enc)
    ELSE LET kind == scanText(p, 1)
         IN IF kind = "binary" THEN encodeBinary(p, enc)
            ELSE [text |-> p, encoding |-> kind]

\* longest payload of encodePayload enumerated in full
MaxTextLen == 3

\* a control byte, tab, a letter, DEL, two continuation bytes, and the lead
\* bytes of a 2-byte and of a 3-byte sequence, and a byte no sequence has
TextBytes == {1, 9, 65, 127, 128, 169, 195, 224, 255}

TextInputs == SeqsUpTo(TextBytes, MaxTextLen)

InitEncode ==
    /\ payload \in TextInputs
    /\ pc = "call"
    /\ logLevel = "DEBUG"
    /\ binaryEncoding \in BinaryEncodings
    /\ currentSize = 0
    /\ lastRotation = 0
    /\ fileOpen = FALSE
    /\ mu = "free"
    /\ now = 0
    /\ disk = NoDisk
    /\ call = EmptyMap
    /\ tpc = "wait"
    /\ calls = 0
    /\ IdleMessage
    /\ IdleBlock
    /\ result = "none"

\* one call of encodePayload(payload, binaryEncoding)
EncodeCall ==
    /\ pc = "call"
    /\ result' = encodePayload(payload, binaryEncoding)
    /\ pc' = "returned"
    /\ UNCHANGED <<loggerVars, payload, msgVars, blockVars>>

NextEncode == EncodeCall

SpecEncode == InitEncode /\ [][NextEncode]_vars

\* a byte below 32 other than tab, LF and CR somewhere in p
HasControl(p) == \E i \in 1..Len(p) : p[i] < 32 /\ p[i] \notin {9, 10, 13}

\* a byte of 128 or more somewhere in p
HasNonAscii(p) == \E i \in 1..Len(p) : p[i] >= 128

\* C17: encodePayload labels a payload "ascii" only if every byte is below 128
\* and none is a control byte other than tab, LF, CR; "utf8" only if it is
\* valid UTF-8 with a non-ASCII byte and no such control byte; and a payload
\* that is invalid UTF-8 or holds such a control byte anywhere is returned in
\* the configured binary encoding.
C17_EncodingLabel ==
    pc = "returned" =>
        /\ result.encoding = "ascii" =>
              (~HasNonAscii(payload) /\ ~HasControl(payload))
        /\ result.encoding = "utf8" =>
              (Utf8Valid(payload) /\ HasNonAscii(payload) /\ ~HasControl(payload))
        /\ (~Utf8Valid(payload) \/ HasControl(payload)) =>
              result.encoding = binaryEncoding


-----------------------------------------------------------------------------
(* decodeAsterixMessage as one function of the payload, as LogData calls   *)
(* it.                                                                     *)

\* lines 120-125: the result r of a field decode is stored and the offset
\* moved on when bytes were consumed
fieldResult(acc, r) ==
    IF r.panic THEN [acc EXCEPT !.panic = TRUE]
    ELSE IF r.n > 0
    THEN [items |-> Put(acc.items, r.name, r.value), offset |-> acc.offset + r.n,
          panic |-> FALSE]
    ELSE acc

RECURSIVE walkFields(_, _, _, _, _, _, _)
\* lines 115-128: the FSPEC walk of decodeDataBlock from bit b of byte k on,
\* with the items and the offset so far in acc
walkFields(d, category, fs, k, b, f, acc) ==
    IF acc.panic \/ k >= Len(fs) THEN acc
    ELSE walkFields(d, category, fs,
                    IF b = LowestFieldBit THEN k + 1 ELSE k,
                    IF b = LowestFieldBit THEN HighestBit ELSE b - 1,
                    f + 1,
                    IF ~BitSet(fs[k + 1], b) THEN acc
                    ELSE IF ~InRange(d, acc.offset) THEN [acc EXCEPT !.panic = TRUE]
                    ELSE fieldResult(acc, decodeDataItem(Drop(d, acc.offset),
                                                         category, f)))

\* lines 106-134: the block made of the FSPEC text and of the items of walk w
blockOf(d, n, w) ==
    [block |-> IF Cardinality(DOMAIN w.items) > 0
               THEN Put(Put(EmptyMap, "fspec", EncodeToString(Take(d, n))),
                        "data_items", w.items)
               ELSE Put(EmptyMap, "fspec", EncodeToString(Take(d, n))),
     n |-> w.offset, err |-> "", panic |-> w.panic]

\* lines 99-134: decodeDataBlock after parseFSPEC returned parsed
blockFrom(d, category, parsed) ==
    IF parsed.n = 0
    THEN [block |-> EmptyMap, n |-> 0, err |-> "failed to parse FSPEC", panic |-> FALSE]
    ELSE IF ~InRange(d, parsed.n)
    THEN [block |-> EmptyMap, n |-> 0, err |-> "", panic |-> TRUE]
    ELSE blockOf(d, parsed.n,
                 walkFields(d, category, parsed.fspec, 0, HighestBit, 1,
                            [items |-> EmptyMap, offset |-> parsed.n, panic |-> FALSE]))

\* lines 93-135: the block, the bytes read and the error
decodeDataBlock(d, category) ==
    IF Len(d) = 0
    THEN [block |-> EmptyMap, n |-> 0, err |-> "empty data block", panic |-> FALSE]
    ELSE blockFrom(d, category, parseFSPEC(d))

RECURSIVE decodeBlocks(_, _, _, _)
\* lines 75-86: the loop body after decodeDataBlock returned r
afterBlock(p, m, off, k, r) ==
    IF r.panic THEN [msg |-> m, panic |-> TRUE]
    ELSE IF r.err # ""
    THEN [msg |-> [m EXCEPT !.ParseError = BlockError(k, off, r.err)], panic |-> FALSE]
    ELSE IF r.n = 0 THEN [msg |-> m, panic |-> FALSE]
    ELSE decodeBlocks(p, [m EXCEPT !.DataBlocks = Append(@, r.block)], off + r.n, k + 1)

\* lines 73-87: the block loop from offset off and block number k
decodeBlocks(p, m, off, k) ==
    IF ~(off < m.Length /\ off < Len(p)) THEN [msg |-> m, panic |-> FALSE]
    ELSE afterBlock(p, m, off, k, decodeDataBlock(Drop(p, off), m.Category))

\* lines 62-89: decodeAsterixMessage after the header was read into m
decodeFrom(p, m) ==
    IF m.Length < HeaderLen \/ m.Length > Len(p)
    THEN [msg |-> [m EXCEPT !.ParseError =
                      "invalid length field: " \o ToString(m.Length)
                          \o " (payload size: " \o ToString(Len(p)) \o ")"],
          panic |-> FALSE]
    ELSE decodeBlocks(p, m, HeaderLen, 0)

\* lines 50-90: the message returned, or a panic
decodeAsterixMessage(p) ==
    IF Len(p) < HeaderLen
    THEN [msg |-> [ZeroMessage EXCEPT !.ParseError = "payload too short for ASTERIX"],
          panic |-> FALSE]
    ELSE decodeFrom(p, [ZeroMessage EXCEPT !.Category = p[1],
                                           !.Length = U16(p[2], p[3])])

-----------------------------------------------------------------------------
(* RotatingLogger (src/logger.go): LogData called by the listener          *)
(* goroutines, the checkRotation goroutine, rotate and Close.              *)

\* 50 * 1024 * 1024
MaxLogSize == 50 * 1024 * 1024

\* 24 * time.Hour, in hours
RotationInterval == 24

\* the listener goroutines calling LogData
Callers == {"c1", "c2"}

\* number of LogData calls in a run
MaxCalls == 2

\* hours the clock moves on in a run
MaxHours == 1

\* the sizes of the log file found by openExisting: empty, and two sizes
\* close under the limit
InitialSizes == {0, MaxLogSize - 8, MaxLogSize - 150}

\* the age in hours of the log file found by openExisting
InitialAges == {0, RotationInterval - 1}

\* the payloads logged: a text, a buffer the Detector rejects for its
\* category, a test message, and a message the Detector accepts and the
\* decoder rejects for its length
LogPayloads ==
    { <<72, 105>>, <<0, 0, 3>>, <<48, 0, 9, 128, 2, 1, 1, 0, 64, 0, 0>>,
      <<48, 0, 6, 128, 1>> }

\* the lengths json.Marshal gives for an entry; they depend on the text of
\* the timestamp, of the addresses and of the numbers
JsonSizes == {120, 4096}

\* a listener goroutine outside LogData
IdleCall == [pc |-> "idle", payload |-> <<>>, logData |-> [raw |-> <<>>],
             before |-> 0, n |-> 0, decoded |-> FALSE, ret |-> "none",
             failed |-> FALSE]

InitLogger ==
    /\ logLevel \in {"DATA", "DEBUG"}
    /\ binaryEncoding \in BinaryEncodings
    /\ currentSize \in InitialSizes
    /\ now = 0
    /\ \E age \in InitialAges : lastRotation = now - age
    /\ fileOpen = TRUE
    /\ mu = "free"
    /\ disk = [exists |-> TRUE, size |-> currentSize, rotated |-> EmptyMap]
    /\ call = [c \in Callers |-> IdleCall]
    /\ tpc = "wait"
    /\ calls = 0
    /\ payload = <<>>
    /\ pc = "logger"
    /\ IdleMessage
    /\ IdleBlock
    /\ result = "none"

\* lines 335-365: rotate() with outcome o: "ok", or the call that fails
\* (os.MkdirAll, os.OpenFile).  The file is closed first; os.Rename, whose
\* error the code does not look at, renames the file when os.Stat finds it.
\* The value is the logger and the directory after it.
rotate(o) ==
    LET renamed == IF disk.exists
                   THEN [exists |-> FALSE, size |-> 0,
                         rotated |-> Put(disk.rotated, now, disk.size)]
                   ELSE disk
    IN CASE o = "mkdir" ->
              [err |-> TRUE, fileOpen |-> FALSE, disk |-> disk,
               currentSize |-> currentSize, lastRotation |-> lastRotation]
         [] o = "open" ->
              [err |-> TRUE, fileOpen |-> FALSE, disk |-> renamed,
               currentSize |-> currentSize, lastRotation |-> lastRotation]
         [] OTHER ->
              [err |-> FALSE, fileOpen |-> TRUE,
               disk |-> [renamed EXCEPT !.exists = TRUE],
               currentSize |-> 0, lastRotation |-> now]

\* the outcomes of rotate
RotateOutcomes == {"ok", "mkdir", "open"}

\* lines 438-447: the entry of caller c for payload p encoded as enc
logEntry(c, p, enc) ==
    [k \in {"timestamp", "source_ip", "source_port", "protocol",
            "payload", "payload_len", "encoding"} |->
        CASE k = "timestamp" -> now
          [] k = "source_ip" -> c
          [] k = "source_port" -> 0
          [] k = "protocol" -> "UDP"
          [] k = "payload" -> enc.text
          [] k = "payload_len" -> Len(p)
          [] OTHER -> enc.encoding]

\* lines 451-452: the decoded message d is attached to the entry
withAsterix(entry, d) ==
    [rec |-> [entry |-> Put(entry, "asterix", d.msg)], decoded |-> TRUE,
     panic |-> d.panic]

\* the record built without asking the Detector
BuildLogData_NoDetector(c, p) ==
    IF logLevel = "DATA"
    THEN [rec |-> [raw |-> Append(p, 10)], decoded |-> FALSE, panic |-> FALSE]
    ELSE withAsterix(logEntry(c, p, encodePayload(p, binaryEncoding)),
                     decodeAsterixMessage(p))

\* lines 435-462: the record LogData builds for payload p of caller c, whether
\* decodeAsterixMessage was called, and whether it panicked
BuildLogData(c, p) ==
    IF logLevel = "DATA"
    THEN [rec |-> [raw |-> Append(p, 10)], decoded |-> FALSE, panic |-> FALSE]
    ELSE IF isAsterixMessage(p)
    THEN withAsterix(logEntry(c, p, encodePayload(p, binaryEncoding)),
                     decodeAsterixMessage(p))
    ELSE [rec |-> [entry |-> logEntry(c, p, encodePayload(p, binaryEncoding))],
          decoded |-> FALSE, panic |-> FALSE]

\* LogData entered without waiting for the mutex
LogLock_NoWait(c) ==
    /\ call[c].pc = "idle"
    /\ calls < MaxCalls
    /\ \E p \in LogPayloads :
          call' = [call EXCEPT ![c] = [@ EXCEPT !.pc = "locked", !.payload = p,
                                                !.before = currentSize, !.n = 0,
                                                !.decoded = FALSE, !.ret = "none"]]
    /\ mu' = c
    /\ calls' = calls + 1
    /\ UNCHANGED <<logLevel, binaryEncoding, currentSize, lastRotation, fileOpen,
                   now, disk, tpc>>
    /\ UNCHANGED <<payload, pc, msgVars, blockVars, result>>

\* lines 427-429: LogData(sourceIP, sourcePort, protocol, payload) is called
\* and takes the mutex
LogLock(c) ==
    /\ call[c].pc = "idle"
    /\ mu = "free"
    /\ calls < MaxCalls
    /\ \E p \in LogPayloads :
          call' = [call EXCEPT ![c] = [@ EXCEPT !.pc = "locked", !.payload = p,
                                                !.before = currentSize, !.n = 0,
                                                !.decoded = FALSE, !.ret = "none"]]
    /\ mu' = c
    /\ calls' = calls + 1
    /\ UNCHANGED <<logLevel, binaryEncoding, currentSize, lastRotation, fileOpen,
                   now, disk, tpc>>
    /\ UNCHANGED <<payload, pc, msgVars, blockVars, result>>

\* lines 464-469: the record built is written, and currentSize grows by the
\* bytes written; a failed write returns an error
WriteRecord(c, built) ==
    IF built.panic
    THEN /\ call' = [call EXCEPT ![c] = [@ EXCEPT !.pc = "panic"]]
         /\ UNCHANGED <<currentSize, disk, mu>>
    ELSE \E ok \in {fileOpen, FALSE} :
         \E size \in IF logLevel = "DATA" THEN {Len(built.rec.raw)}
                     ELSE {j + 1 : j \in JsonSizes} :
            IF ok
            THEN /\ disk' = [disk EXCEPT !.size = @ + size]
                 /\ currentSize' = currentSize + size
                 /\ call' = [call EXCEPT ![c] =
                                [@ EXCEPT !.pc = "written", !.n = size,
                                          !.logData = built.rec,
                                          !.decoded = built.decoded]]
                 /\ UNCHANGED mu
            ELSE /\ call' = [call EXCEPT ![c] =
                                [@ EXCEPT !.pc = "idle", !.payload = <<>>,
                                          !.logData = [raw |-> <<>>],
                                          !.decoded = built.decoded,
                                          !.ret = "failed to write to log file",
                                          !.failed = TRUE]]
                 /\ mu' = "free"
                 /\ UNCHANGED <<currentSize, disk>>

\* lines 432-469: the record is built and written
LogWrite(c) ==
    /\ call[c].pc = "locked"
    /\ WriteRecord(c, BuildLogData(c, call[c].payload))
    /\ UNCHANGED <<logLevel, binaryEncoding, lastRotation, fileOpen, now, tpc, calls>>
    /\ UNCHANGED <<payload, pc, msgVars, blockVars, result>>

\* lines 471-479: the size check, the rotation, and the return, which
\* releases the mutex
LogFinish(c) ==
    /\ call[c].pc = "written"
    /\ IF currentSize >= MaxLogSize
       THEN \E o \in RotateOutcomes :
               LET r == rotate(o)
               IN /\ fileOpen' = r.fileOpen
                  /\ disk' = r.disk
                  /\ currentSize' = r.currentSize
                  /\ lastRotation' = r.lastRotation
                  /\ call' = [call EXCEPT ![c] =
                                 [@ EXCEPT !.pc = "idle", !.payload = <<>>,
                                           !.logData = [raw |-> <<>>],
                                           !.ret = IF r.err
                                                   THEN "failed to rotate log file"
                                                   ELSE "ok",
                                           !.failed = @ \/ r.err]]
       ELSE /\ call' = [call EXCEPT ![c] =
                           [@ EXCEPT !.pc = "idle", !.payload = <<>>,
                                           !.logData = [raw |-> <<>>], !.ret = "ok"]]
            /\ UNCHANGED <<fileOpen, disk, currentSize, lastRotation>>
    /\ mu' = "free"
    /\ UNCHANGED <<logLevel, binaryEncoding, now, tpc, calls>>
    /\ UNCHANGED <<payload, pc, msgVars, blockVars, result>>

\* lines 322-323: the ticker fires and checkRotation takes the mutex
TickLock ==
    /\ tpc = "wait"
    /\ mu = "free"
    /\ tpc' = "locked"
    /\ mu' = "ticker"
    /\ UNCHANGED <<logLevel, binaryEncoding, currentSize, lastRotation, fileOpen,
                   now, disk, call, calls>>
    /\ UNCHANGED <<payload, pc, msgVars, blockVars, result>>

\* lines 324-327: the age check, the rotation whose error is dropped, and the
\* release of the mutex
TickCheck ==
    /\ tpc = "locked"
    /\ IF now - lastRotation >= RotationInterval
       THEN \E o \in RotateOutcomes :
               LET r == rotate(o)
               IN /\ fileOpen' = r.fileOpen
                  /\ disk' = r.disk
                  /\ currentSize' = r.currentSize
                  /\ lastRotation' = r.lastRotation
       ELSE UNCHANGED <<fileOpen, disk, currentSize, lastRotation>>
    /\ tpc' = "wait"
    /\ mu' = "free"
    /\ UNCHANGED <<logLevel, binaryEncoding, now, call, calls>>
    /\ UNCHANGED <<payload, pc, msgVars, blockVars, result>>

\* an hour goes by
ClockAdvance ==
    /\ now < MaxHours
    /\ now' = now + 1
    /\ UNCHANGED <<logLevel, binaryEncoding, currentSize, lastRotation, fileOpen,
                   mu, disk, call, tpc, calls>>
    /\ UNCHANGED <<payload, pc, msgVars, blockVars, result>>

\* lines 483-494: Close stops the checkRotation goroutine and closes the file
\* under the mutex
Close ==
    /\ tpc = "wait"
    /\ mu = "free"
    /\ tpc' = "stopped"
    /\ fileOpen' = FALSE
    /\ UNCHANGED <<logLevel, binaryEncoding, currentSize, lastRotation, mu, now,
                   disk, call, calls>>
    /\ UNCHANGED <<payload, pc, msgVars, blockVars, result>>

NextLogger ==
    \/ \E c \in Callers : LogLock(c)
    \/ \E c \in Callers : LogWrite(c)
    \/ \E c \in Callers : LogFinish(c)
    \/ TickLock
    \/ TickCheck
    \/ ClockAdvance
    \/ Close

SpecLogger == InitLogger /\ [][NextLogger]_vars


\* C15: LogData attaches the asterix annotation to the record it writes if
\* and only if the logger is in DEBUG mode and isAsterixMessage(payload) is
\* true, and the annotation is decodeAsterixMessage(payload); in DATA mode,
\* or when the Detector says no, the decoder is not called and the record has
\* no annotation (in DATA mode it is the payload and a line feed).
C15_Annotation ==
    [][\A c \in Callers :
          LET p == call[c].payload
              rec == call'[c].logData
          IN /\ (call[c].pc = "locked" /\ call'[c].pc # "locked") =>
                    (call'[c].decoded <=> (logLevel = "DEBUG" /\ isAsterixMessage(p)))
             /\ (call[c].pc = "locked" /\ call'[c].pc = "written") =>
                    /\ logLevel = "DATA" => rec = [raw |-> p \o <<10>>]
                    /\ logLevel = "DEBUG" =>
                          /\ ("asterix" \in DOMAIN rec.entry) <=> isAsterixMessage(p)
                          /\ isAsterixMessage(p) =>
                                rec.entry["asterix"] = decodeAsterixMessage(p).msg]_vars

C15_Witness ==
    \E c \in Callers :
        /\ call[c].pc = "written"
        /\ logLevel = "DEBUG"
        /\ call[c].payload = <<48, 0, 9, 128, 2, 1, 1, 0, 64, 0, 0>>
        /\ call[c].decoded
        /\ "asterix" \in DOMAIN call[c].logData.entry
        /\ call[c].logData.entry["asterix"].Category = 48
        /\ Len(call[c].logData.entry["asterix"].DataBlocks) >= 1

-----------------------------------------------------------------------------
(* The effect of one field on the block.                                   *)

\* the FSPEC bit the walk is looking at is set
BitPresent == BitSet(fspec[byteIdx + 1], bitIdx)

\* the decodeDataItem call of the current FRN
CurrentDecode == decodeDataItem(Drop(data, boffset), msg.Category, frn)

\* one bit position of the walk has been handled
WalkStep == pc = "walk" /\ frn' # frn

\* C21: a field decode reporting bytesConsumed > 0 adds exactly one entry
\* (name -> value) and advances the block offset by bytesConsumed; one
\* reporting 0 leaves data_items and the offset alone; neither raises an
\* error and the walk goes on with the next FRN; the offset the block returns
\* is the FSPEC length plus the sum of the bytesConsumed values
C21_FieldEffect ==
    /\ [][WalkStep =>
            /\ pc' = "walk"
            /\ frn' = frn + 1
            /\ IF BitPresent /\ CurrentDecode.n > 0
               THEN /\ boffset' = boffset + CurrentDecode.n
                    /\ CurrentDecode.name \notin DOMAIN dataItems
                    /\ DOMAIN dataItems' = DOMAIN dataItems \cup {CurrentDecode.name}
                    /\ dataItems'[CurrentDecode.name] = CurrentDecode.value
                    /\ \A k \in DOMAIN dataItems : dataItems'[k] = dataItems[k]
               ELSE UNCHANGED <<boffset, dataItems>>]_vars
    /\ [](pc = "walk" => boffset = Len(fspec) + last.sum)
    /\ [][(pc = "walk" /\ pc' = "loop") =>
            offset' = offset + Len(fspec) + last.sum]_vars

\* a block that stored one field and skipped the next one on exhausted data
C21_Witness ==
    /\ pc = "walk"
    /\ last.called
    /\ last.n = 0
    /\ last.sum > 0
    /\ Cardinality(DOMAIN dataItems) = 1
    /\ boffset = Len(fspec) + last.sum

-----------------------------------------------------------------------------
(* estimateFieldSize on its own, on data longer than its scan cap.         *)

\* a run of bytes with the extension bit set, followed by a short tail
OddRuns ==
    {Rep(b, k) \o t : b \in {1, 255}, k \in 0..MaxOddRun, t \in {<<>>, <<0>>, <<0, 1>>}}

EstimateInputs == ItemInputs \cup OddRuns

InitEstimate ==
    /\ payload = <<>>
    /\ pc = "call"
    /\ IdleLogger
    /\ IdleMessage
    /\ data \in EstimateInputs
    /\ boffset = 0
    /\ fspec = <<>>
    /\ byteIdx = 0
    /\ bitIdx = 0
    /\ frn = 0
    /\ dataItems = EmptyMap
    /\ block = EmptyMap
    /\ last = NoCall
    /\ result = "none"

\* one call of estimateFieldSize(data)
EstimateCall ==
    /\ pc = "call"
    /\ result' = estimateFieldSize(data)
    /\ pc' = "returned"
    /\ UNCHANGED <<loggerVars, payload, msgVars, boffset, fspec, byteIdx, bitIdx, frn,
                   dataItems, block, last, data>>

NextEstimate == EstimateCall

SpecEstimate == InitEstimate /\ [][NextEstimate]_vars

\* the 1-based positions, among the first min(len, 20), whose bit 0 is clear
ClearPositions(d) == {i \in 1..Min(Len(d), 20) : d[i] % 2 = 0}

\* the smallest member of a non-empty set of integers
Least(S) == CHOOSE i \in S : \A j \in S : i <= j

\* C22: estimateFieldSize returns 0 on empty data; when bit 0 of data[0] is
\* set, more than one byte is left and a byte with bit 0 clear lies among the
\* first min(len, 20) bytes, it returns the index of the first such byte plus
\* one; in every other non-empty case it returns 2 if two bytes are left and
\* 1 otherwise; the result never exceeds len(data) nor 20
C22_Estimate ==
    pc = "returned" =>
        /\ Len(data) = 0 => result = 0
        /\ (Len(data) > 1 /\ data[1] % 2 = 1 /\ ClearPositions(data) # {}) =>
              result = Least(ClearPositions(data))
        /\ (Len(data) > 0
              /\ ~(Len(data) > 1 /\ data[1] % 2 = 1 /\ ClearPositions(data) # {})) =>
              result = IF Len(data) >= 2 THEN 2 ELSE 1
        /\ result <= Len(data)
        /\ result <= 20

\* the terminating byte is the twentieth, the last one the scan looks at
C22_Witness ==
    /\ pc = "returned"
    /\ Len(data) > 20
    /\ \A i \in 1..(19) : data[i] % 2 = 1
    /\ data[20] % 2 = 0
    /\ result = 20

\* the terminating byte lies just behind the scan cap: the default size
C22_WitnessCapped ==
    /\ pc = "returned"
    /\ Len(data) > 20
    /\ ClearPositions(data) = {}
    /\ data[21] % 2 = 0
    /\ result = 2

-----------------------------------------------------------------------------
(* decodeAircraftID on its own.                                            *)

\* bytes of an aircraft identification: they hold the groups 1 (A), 2 (B),
\* 32 (space), 0 and 63 at the four alignments of a 6-bit group
AircraftBytes == {4, 8, 32, 130, 255}

\* every 6-byte identification over AircraftBytes, and the shorter inputs
AircraftInputs ==
    {<<a, b, c, d, e, f>> : a \in AircraftBytes, b \in AircraftBytes, c \in AircraftBytes,
                            d \in AircraftBytes, e \in AircraftBytes, f \in AircraftBytes}
        \cup ItemInputs \cup {<<4, 8, 32, 130, 255>>}

InitAircraft ==
    /\ payload = <<>>
    /\ pc = "call"
    /\ IdleLogger
    /\ IdleMessage
    /\ data \in AircraftInputs
    /\ boffset = 0
    /\ fspec = <<>>
    /\ byteIdx = 0
    /\ bitIdx = 0
    /\ frn = 0
    /\ dataItems = EmptyMap
    /\ block = EmptyMap
    /\ last = NoCall
    /\ result = "none"

\* one call of decodeAircraftID(data)
AircraftCall ==
    /\ pc = "call"
    /\ result' = decodeAircraftID(data)
    /\ pc' = "returned"
    /\ UNCHANGED <<loggerVars, payload, msgVars, blockVars>>

NextAircraft == AircraftCall

SpecAircraft == InitAircraft /\ [][NextAircraft]_vars

\* bit j (0 = most significant) of the big-endian concatenation of d
BitOfConcat(d, j) == (d[(j \div 8) + 1] \div (2 ^ (7 - (j % 8)))) % 2

\* the 6-bit group k (0..7) of the 48-bit concatenation, most significant first
Group(d, k) ==
    (32 * BitOfConcat(d, 6 * k)) + (16 * BitOfConcat(d, (6 * k) + 1))
        + (8 * BitOfConcat(d, (6 * k) + 2)) + (4 * BitOfConcat(d, (6 * k) + 3))
        + (2 * BitOfConcat(d, (6 * k) + 4)) + BitOfConcat(d, (6 * k) + 5)

\* the eight characters before the trailing spaces are removed
GroupChars(d) == [k \in 1..8 |-> AircraftChars[Group(d, k - 1) + 1]]

\* the length of cs without its trailing spaces
TrimmedLen(cs) ==
    Least({n \in 0..Len(cs) : \A i \in (n + 1)..Len(cs) : cs[i] = " "})

\* C23: on 6 bytes decodeAircraftID yields the characters of the eight 6-bit
\* groups of the 48-bit big-endian concatenation, looked up in the 64-entry
\* alphabet, with the trailing spaces removed (interior ones kept): at most 8
\* characters, never ending in a space, empty when every group is a space;
\* every index lies in 0..63; shorter input yields the empty string
C23_AircraftID ==
    pc = "returned" =>
        /\ Len(AircraftChars) = 64
        /\ Len(data) < 6 => result = ""
        /\ Len(data) >= 6 =>
              LET cs == GroupChars(data)
                  n == TrimmedLen(cs)
              IN /\ \A k \in 0..7 : Group(data, k) \in 0..63
                 /\ \A k \in 1..8 : AircraftIndices(data)[k] = Group(data, k - 1)
                 /\ result = Join(Take(cs, n))
                 /\ Len(result) = n
                 /\ n <= 8
                 /\ n > 0 => cs[n] # " "
                 /\ (\A k \in 1..8 : cs[k] = " ") => result = ""

\* an identification with an interior space and trailing spaces
C23_Witness ==
    /\ pc = "returned"
    /\ Len(data) = 6
    /\ GroupChars(data)[1] = "A"
    /\ GroupChars(data)[4] = " "
    /\ GroupChars(data)[6] # " "
    /\ GroupChars(data)[7] = " "
    /\ GroupChars(data)[8] = " "
    /\ Len(result) = 6

\* the identification made of eight spaces
C23_WitnessBlank ==
    /\ pc = "returned"
    /\ data = <<130, 8, 32, 130, 8, 32>>
    /\ result = ""

-----------------------------------------------------------------------------
(* The flight level of category 48 over every 16-bit raw value.            *)

\* the FRN of the flight level in the field table of category 48
FlightLevelFRN == 5

\* every 2-byte field, and the shorter and longer inputs of the other checks
FlightLevelInputs == {<<a, b>> : a \in Byte, b \in Byte} \cup ItemInputs

InitFlightLevel ==
    /\ payload = <<>>
    /\ pc = "call"
    /\ IdleLogger
    /\ msg = [ZeroMessage EXCEPT !.Category = 48]
    /\ offset = 0
    /\ blockNum = 0
    /\ data \in FlightLevelInputs
    /\ boffset = 0
    /\ fspec = <<>>
    /\ byteIdx = 0
    /\ bitIdx = 0
    /\ frn = FlightLevelFRN
    /\ dataItems = EmptyMap
    /\ block = EmptyMap
    /\ last = NoCall
    /\ result = "none"

\* one call of decodeCAT48Item(data, 5)
FlightLevelCall ==
    /\ pc = "call"
    /\ result' = decodeCAT48Item(data, frn)
    /\ pc' = "returned"
    /\ UNCHANGED <<loggerVars, payload, msgVars, blockVars>>

NextFlightLevel == FlightLevelCall

SpecFlightLevel == InitFlightLevel /\ [][NextFlightLevel]_vars

\* bit k of the non-negative integer v
BitOf(v, k) == (v \div (2 ^ k)) % 2

\* x is a value of the type int16
IsInt16(x) == -32768 <= x /\ x <= 32767

\* C24: for every 16-bit raw value v of the flight level of category 48,
\* validated is (bit 15 = 0), garbled is (bit 14 = 1), the signed value
\* before the division by 4 is the low 14 bits of v read as a 14-bit two's
\* complement number, within -8192..8191, no int16 operation on the way
\* overflows, and the field consumes 2 bytes
C24_FlightLevel ==
    (pc = "returned" /\ Len(data) >= 2) =>
        LET v == (data[1] * 256) + data[2]
            low == v % 16384
            negated == 0 - low
            masked == negated % 16384
            expected == IF BitOf(v, 13) = 1 THEN low - 16384 ELSE low
        IN /\ result.name = "flight_level"
           /\ result.n = 2
           /\ result.value.validated = (BitOf(v, 15) = 0)
           /\ result.value.garbled = (BitOf(v, 14) = 1)
           /\ result.value.fl = Scaled(expected, 1, 2)
           /\ -8192 <= expected /\ expected <= 8191
           /\ IsInt16(low) /\ IsInt16(negated - 1) /\ IsInt16(negated)
           /\ IsInt16(masked) /\ IsInt16(0 - masked)
           /\ BitOf(v, 13) = 1 => (0 - masked) = expected

\* the most negative flight level: raw value 0x2000 gives -8192
C24_Witness ==
    /\ pc = "returned"
    /\ data = <<32, 0>>
    /\ result.value.fl.raw = -8192
    /\ result.value.validated
    /\ ~result.value.garbled

\* a garbled, not validated, negative flight level: raw value 0xFFFF gives -1
C24_WitnessAllOnes ==
    /\ pc = "returned"
    /\ data = <<255, 255>>
    /\ result.value.fl.raw = -1
    /\ ~result.value.validated
    /\ result.value.garbled

-----------------------------------------------------------------------------
(* The target report descriptor of category 21 on data longer than its     *)
(* scan cap.                                                               *)

\* the FRN of the target report descriptor in the field table of category 21
DescriptorFRN == 2

InitDescriptor ==
    /\ payload = <<>>
    /\ pc = "call"
    /\ IdleLogger
    /\ msg = [ZeroMessage EXCEPT !.Category = 21]
    /\ offset = 0
    /\ blockNum = 0
    /\ data \in EstimateInputs
    /\ boffset = 0
    /\ fspec = <<>>
    /\ byteIdx = 0
    /\ bitIdx = 0
    /\ frn = DescriptorFRN
    /\ dataItems = EmptyMap
    /\ block = EmptyMap
    /\ last = NoCall
    /\ result = "none"

\* one call of decodeDataItem(data, 21, 2)
DescriptorCall ==
    /\ pc = "call"
    /\ result' = decodeDataItem(data, msg.Category, frn)
    /\ pc' = "returned"
    /\ UNCHANGED <<loggerVars, payload, msgVars, blockVars>>

NextDescriptor == DescriptorCall

SpecDescriptor == InitDescriptor /\ [][NextDescriptor]_vars

\* the 1-based positions of the bytes of d whose extension bit is clear
ClearBytes(d) == {i \in 1..Len(d) : d[i] % 2 = 0}

\* the descriptor ends at the first byte with the extension bit clear, when
\* that byte is among the first ten
C25_EndsAtFirstClear ==
    (pc = "returned" /\ ClearBytes(data) # {} /\ Least(ClearBytes(data)) <= 10) =>
        /\ result.name = "target_report_descriptor"
        /\ result.n = Least(ClearBytes(data))
        /\ result.value = EncodeToString(Take(data, result.n))
        /\ ~result.panic

\* C25: the target report descriptor of category 21 consumes the bytes up to
\* and including the first one whose extension bit is clear, never more than
\* 10 bytes whatever the input, and its value is the opaque encoding of the
\* consumed span under the name target_report_descriptor
C25_Descriptor ==
    /\ C25_EndsAtFirstClear
    /\ pc = "returned" => result.n <= 10

\* ten bytes with the extension bit set and an eleventh byte behind them
C25_ElevenBytes ==
    /\ pc = "returned"
    /\ Len(data) = 11
    /\ \A i \in 1..11 : data[i] % 2 = 1
    /\ result.name = "target_report_descriptor"
    /\ result.n = 11

-----------------------------------------------------------------------------
(* The bytes decoded and the declared length.                              *)

\* length validation has passed and the block loop is running or has ended
PastValidation ==
    /\ Len(payload) >= HeaderLen
    /\ pc \in {"loop", "walk", "done"}
    /\ msg.ParseError = ""

\* the payload offset behind the last byte consumed so far
ConsumedUpTo == IF pc = "walk" THEN offset + boffset ELSE offset

\* C26: decodeAsterixMessage never decodes bytes at payload offsets at or
\* beyond the declared length: the FSPEC and field bytes it consumes lie in
\* [3, declaredLength), and the offset is at most the declared length when
\* the block loop ends, also when the buffer is longer than declared
C26_WithinDeclared ==
    PastValidation =>
        /\ HeaderLen <= offset
        /\ ConsumedUpTo <= DeclaredLength

\* the same bound against the buffer length, which the slices do respect
C26_WithinBuffer ==
    PastValidation =>
        /\ HeaderLen <= offset
        /\ ConsumedUpTo <= Len(payload)

\* a finished decode whose offset lies behind the declared length
C26_PastDeclared ==
    /\ PastValidation
    /\ pc = "done"
    /\ DeclaredLength < Len(payload)
    /\ offset > DeclaredLength
    /\ Len(msg.DataBlocks) > 0

-----------------------------------------------------------------------------
(* When the parse error is set.                                            *)

\* C27: for a payload of at least 3 bytes the parse error is set exactly when
\* the declared length is below 3 or beyond the buffer length; once the
\* length is validated no block raises an error and no block returns zero
\* bytes consumed, so the loop only ends by its condition; a payload the
\* detector accepts has a parse error exactly when its declared length
\* exceeds the buffer length
C27_ParseErrorIff ==
    /\ []((pc = "done" /\ Len(payload) >= 3) =>
            /\ (result.ParseError # "") =
                  (DeclaredLength < 3 \/ DeclaredLength > Len(payload))
            /\ isAsterixMessage(payload) =>
                  ((result.ParseError # "") = (DeclaredLength > Len(payload))))
    /\ [](pc \in {"loop", "walk"} => msg.ParseError = "")
    /\ [](pc = "walk" => (Len(data) > 0 /\ Len(fspec) >= 1 /\ boffset >= 1))
    /\ [][pc = "walk" => pc' \in {"walk", "loop"}]_vars
    /\ [][(pc = "loop" /\ pc' = "done") => (~LoopCondition /\ msg' = msg)]_vars

\* a payload the detector accepts whose declared length exceeds the buffer
C27_Witness ==
    /\ pc = "done"
    /\ isAsterixMessage(payload)
    /\ DeclaredLength > Len(payload)
    /\ result.ParseError # ""
    /\ result.DataBlocks = <<>>

\* a payload the detector accepts decoded into two blocks without an error
C27_WitnessNoError ==
    /\ pc = "done"
    /\ isAsterixMessage(payload)
    /\ DeclaredLength = Len(payload)
    /\ result.ParseError = ""
    /\ Len(result.DataBlocks) = 2

-----------------------------------------------------------------------------
(* Zero bytes consumed.                                                    *)

\* C28: for every category and every FRN decodeDataItem returns
\* bytesConsumed = 0 exactly when the data slice it is given is empty; so a
\* field is skipped only on exhausted data, and every other FRN decoded from
\* the same position, which a skipped field leaves unchanged, is skipped too
C28_ZeroIffEmpty ==
    pc = "returned" =>
        /\ ~result.panic
        /\ (result.n = 0) = (Len(data) = 0)
        /\ result.n = 0 =>
              \A g \in FRNs : decodeDataItem(data, msg.Category, g).n = 0

\* a field with a fixed size of 8 bytes handed a single byte is not skipped
C28_Witness ==
    /\ pc = "returned"
    /\ msg.Category = 21
    /\ frn = 6
    /\ Len(data) = 1
    /\ result.n = 1

\* the field with the largest fixed size handed no data is skipped
C28_WitnessEmpty ==
    /\ pc = "returned"
    /\ msg.Category = 21
    /\ frn = 6
    /\ data = <<>>
    /\ result.n = 0

\* in the block walk a field is skipped only at the end of the block's data,
\* the offset then stays there, and every later present field of the block
\* is skipped as well
C28_SkippedAtEnd ==
    /\ []((pc = "walk" /\ last.called) =>
            ((last.n = 0) = (last.avail = 0)))
    /\ []((pc = "walk" /\ last.called /\ last.n = 0) =>
            (last.at = Len(data) /\ boffset = Len(data)))
    /\ [][(WalkStep /\ boffset = Len(data)) =>
            (boffset' = boffset /\ (last'.called => last'.n = 0))]_vars

\* a present field skipped at the end of the data, right behind another
\* present field of the same block
C28_SkippedBehindPresent ==
    /\ pc = "walk"
    /\ last.called
    /\ last.n = 0
    /\ last.frn >= 2
    /\ FrnPresent(last.frn - 1)
    /\ boffset = Len(data)

-----------------------------------------------------------------------------
(* Field names within a block.                                             *)

\* the names decodeDataItem gives to FRN g of category c, over every input
NameTable ==
    [c \in Categories |->
        [g \in FRNs |-> {decodeDataItem(d, c, g).name : d \in ItemInputs}]]

\* C29: within one category two different FRNs never get the same field
\* name, whatever the outcome of the decode (the name of the field table or
\* the generic name), for every category and every FRN in 1..77; so no entry
\* of data_items is overwritten
C29_UniqueNames ==
    pc = "returned" =>
        /\ result.name \in NameTable[msg.Category][frn]
        /\ \A g \in FRNs \ {frn} :
              /\ result.name \notin NameTable[msg.Category][g]
              /\ NameTable[msg.Category][frn] \cap NameTable[msg.Category][g] = {}

\* an FRN with two names, the one of the field table being returned
C29_Witness ==
    /\ pc = "returned"
    /\ msg.Category = 21
    /\ frn = 7
    /\ result.name = "position_wgs84_high_res"
    /\ result.n = 8
    /\ NameTable[21][7] = {"position_wgs84_high_res", "I021_007"}
    /\ NameTable[21][6] = {"position_wgs84", "I021_006"}

\* in the block walk the number of entries of data_items is the number of
\* present FRNs whose decode consumed more than 0 bytes, and the block
\* returned carries that many entries
C29_EntryCount ==
    /\ [](pc = "walk" => Cardinality(DOMAIN dataItems) = last.stored)
    /\ [][(pc = "walk" /\ pc' = "loop" /\ last.stored > 0) =>
            Cardinality(DOMAIN block'["data_items"]) = last.stored]_vars

\* a block with three entries
C29_ThreeEntries ==
    /\ pc = "walk"
    /\ last.stored = 3
    /\ Cardinality(DOMAIN dataItems) = 3
====
